---- MODULE Spec2Model ----
(***************************************************************************)
(* A model of the La Marzocco display firmware's cloud session layer: the  *)
(* token session (LaMarzoccoClient), the real-time STOMP channel           *)
(* (LaMarzoccoWebSocket) and its owner (LaMarzoccoMachine).                *)
(*                                                                         *)
(* Text is modelled as a sequence of atoms: LF and NUL stand for the bytes *)
(* 0x0A and 0x00, SP for a blank, and every other atom for a non-empty run *)
(* of bytes holding none of these.  Tokens and UUIDs are numbers; 0 is the *)
(* empty string.  esp_fill_random and the service are taken to yield a     *)
(* value never seen before on every draw (a counter).                      *)
(***************************************************************************)
EXTENDS Integers, Sequences, FiniteSets, TLC

VARIABLES millis, synced, client, ws, machine, ids, prefs, obs, hist, calc, wifi, display

vars == <<millis, synced, client, ws, machine, ids, prefs, obs, hist, calc, wifi, display>>

(***************************************************************************)
(* Bounds of the model.                                                    *)
(***************************************************************************)
\* one step of the clock, in milliseconds
TickMs == 15000
\* the clock stops after this many steps
MaxTicks == 2
\* UUIDs drawn from the random source in one run
MaxUuid == 4
\* token pairs issued by the service in one run
MaxTok == 2
\* wall-clock seconds at boot, once network time is known
EpochBase == 1700000000

(***************************************************************************)
(* Program constants.                                                      *)
(***************************************************************************)
\* the clock of the firmware's main loop stops after this many steps
MaxOwnerTicks == 4

TOKEN_TIME_TO_REFRESH == 600
RECONNECT_INTERVAL_MS == 30000
ReconnectInterval == 5000

\* the serial number setup() reads from the preferences and hands to init()
SerialNo == "MR000001"
WS_BASE_URL == "lion.lamarzocco.io"

LF == "<LF>"
NUL == "<NUL>"
SP == "<SP>"

\* what as<String>() yields for a field the response does not hold: "null"
NullText == -1

\* the text of a UUID or of a token; the empty string for 0
Text(kind, n) ==
    IF n = 0 THEN <<>>
    ELSE IF n = NullText THEN <<"null">>
    ELSE <<kind \o ToString(n)>>

(***************************************************************************)
(* String helpers of the Arduino String class, on atom sequences.          *)
(***************************************************************************)
\* the least number of a set of numbers, or none for the empty set
FirstOf(S, none) == IF S = {} THEN none ELSE CHOOSE i \in S : \A j \in S : i <= j

\* strlen from a place on: the 0-based place of the first NUL at or after
\* from, or the length.  indexOf searches with strstr and strchr, which stop
\* there, although the String holds the bytes behind it.
CStrEnd(s, from) ==
    FirstOf({i \in (from + 1)..Len(s) : s[i] = NUL}, Len(s) + 1) - 1

\* String::indexOf(LF LF): the 0-based place of the first LF LF, or -1
IndexOfLFLF(s) ==
    FirstOf({i \in 1..(CStrEnd(s, 0) - 1) : s[i] = LF /\ s[i + 1] = LF}, 0) - 1

\* String::indexOf(c, from): the 0-based place of the first c at or after
\* from, or -1.  The search for NUL is made over the whole buffer.
IndexOf(s, c, from) ==
    IF from >= Len(s) THEN -1
    ELSE FirstOf({i \in (from + 1)..(IF c = NUL THEN Len(s) ELSE CStrEnd(s, from)) :
                     s[i] = c}, 0) - 1

\* String::substring(from, to): the atoms at the 0-based places from..to-1
Substring(s, from, to) == SubSeq(s, from + 1, to)

\* String::endsWith(LF)
EndsWithLF(s) == Len(s) > 0 /\ s[Len(s)] = LF

IsSpace(a) == a = SP \/ a = LF

\* String::trim(): drops leading and trailing whitespace
Trim(s) ==
    LET keep == {i \in 1..Len(s) : ~IsSpace(s[i])}
    IN IF keep = {} THEN <<>>
       ELSE SubSeq(s, CHOOSE i \in keep : \A j \in keep : i <= j,
                      CHOOSE i \in keep : \A j \in keep : i >= j)

(***************************************************************************)
(* The STOMP codec.                                                        *)
(***************************************************************************)
_encode_stomp_message(command, headers, body) ==
    command \o <<LF>> \o headers
        \o (IF ~EndsWithLF(headers) THEN <<LF>> ELSE <<>>)
        \o <<LF>>
        \o (IF Len(body) > 0 THEN body ELSE <<>>)
        \o <<NUL>>

\* a faulty variant: a failed call clears the output parameters
_decode_stomp_message_clears(message, command, headers, body) ==
    LET header_end == IndexOfLFLF(message)
        command_end == IndexOf(message, LF, 0)
        body_start == header_end + 2
        nul == IndexOf(message, NUL, body_start)
        body_end == IF nul < 0 THEN Len(message) ELSE nul
    IN [ok |-> header_end >= 0,
        command |-> IF header_end < 0 THEN <<>>
                    ELSE Trim(Substring(message, 0, command_end)),
        headers |-> IF header_end >= 0 /\ command_end + 1 < header_end
                    THEN Substring(message, command_end + 1, header_end)
                    ELSE <<>>,
        body |-> IF header_end >= 0 /\ body_end > body_start
                 THEN Substring(message, body_start, body_end)
                 ELSE <<>>]

\* the result record: ok is the return value, the rest the output parameters
\* command, headers and body as the call leaves them
_decode_stomp_message(message, command, headers, body) ==
    LET header_end == IndexOfLFLF(message)
        command_end == IndexOf(message, LF, 0)
        body_start == header_end + 2
        nul == IndexOf(message, NUL, body_start)
        body_end == IF nul < 0 THEN Len(message) ELSE nul
        failed == [ok |-> FALSE, command |-> command, headers |-> headers,
                   body |-> body]
    IN IF header_end < 0 THEN failed
       ELSE IF command_end < 0 \/ command_end > header_end THEN failed
       ELSE [ok |-> TRUE,
             command |-> Trim(Substring(message, 0, command_end)),
             headers |-> IF command_end + 1 < header_end
                         THEN Substring(message, command_end + 1, header_end)
                         ELSE <<>>,
             body |-> IF body_end > body_start
                      THEN Substring(message, body_start, body_end)
                      ELSE <<>>]

(***************************************************************************)
(* The installation identity and its place in the Preferences store.  A    *)
(* blob is its length and the identity its bytes were made for; an absent  *)
(* key has length -1.  The installation id is a UUID number, 0 when the    *)
(* entry is absent or empty.  USER says that USER_EMAIL and USER_PASS hold  *)
(* non-empty text, MACHINE that MACHINE does.                              *)
(***************************************************************************)
SecretLen == 32
PrivateKeyDerSize == 121
PublicKeyDerSize == 91

Absent == [len |-> -1, of |-> 0]
Blob(len, n) == [len |-> len, of |-> n]

\* struct InstallationKey
InstallationKey(n) ==
    [installation_id |-> n, secret |-> n,
     private_key |-> Blob(PrivateKeyDerSize, n),
     public_key |-> Blob(PublicKeyDerSize, n)]

\* an InstallationKey nothing has been read into
NoKey ==
    [installation_id |-> 0, secret |-> 0,
     private_key |-> Blob(0, 0), public_key |-> Blob(0, 0)]

\* Preferences::isKey and Preferences::getBytes: the length read, 0 when the
\* key is absent or the blob is longer than the buffer
isKey(blob) == blob.len >= 0

getBytes(blob, maxLen) == IF blob.len > maxLen \/ blob.len < 0 THEN 0 ELSE blob.len

\* the store of a device never configured
EmptyStore ==
    [USER |-> FALSE, MACHINE |-> FALSE, INST_ID |-> 0, INST_SECRET |-> Absent, INST_PRIVKEY |-> Absent,
     INST_PUBKEY |-> Absent, INST_PRIVLEN |-> 0, INST_PUBLEN |-> 0]

\* a faulty variant: the lengths read are not looked at
load_installation_key_unchecked(p, key) ==
    [ok |-> p.INST_ID # 0,
     key |-> [installation_id |-> p.INST_ID,
              secret |-> p.INST_SECRET.of,
              private_key |-> p.INST_PRIVKEY,
              public_key |-> p.INST_PUBKEY]]

\* LaMarzoccoAuth::load_installation_key: ok is the return value, key the
\* output parameter with what has been read into it by then
load_installation_key(p, key) ==
    LET k1 == [key EXCEPT !.installation_id = p.INST_ID]
        secret_len == getBytes(p.INST_SECRET, SecretLen)
        k2 == IF secret_len > 0 THEN [k1 EXCEPT !.secret = p.INST_SECRET.of]
              ELSE k1
        private_key_len == getBytes(p.INST_PRIVKEY, PrivateKeyDerSize)
        k3 == [k2 EXCEPT !.private_key =
                  IF private_key_len > 0 THEN p.INST_PRIVKEY
                  ELSE Blob(0, k2.private_key.of)]
        public_key_len == getBytes(p.INST_PUBKEY, PublicKeyDerSize)
        k4 == [k3 EXCEPT !.public_key =
                  IF public_key_len > 0 THEN p.INST_PUBKEY
                  ELSE Blob(0, k3.public_key.of)]
    IN IF p.INST_ID = 0 THEN [ok |-> FALSE, key |-> k1]
       ELSE IF ~isKey(p.INST_SECRET) THEN [ok |-> FALSE, key |-> k1]
       ELSE IF secret_len # SecretLen THEN [ok |-> FALSE, key |-> k2]
       ELSE IF ~isKey(p.INST_PRIVKEY) THEN [ok |-> FALSE, key |-> k2]
       ELSE IF private_key_len = 0 THEN [ok |-> FALSE, key |-> k3]
       ELSE IF ~isKey(p.INST_PUBKEY) THEN [ok |-> FALSE, key |-> k3]
       ELSE IF public_key_len = 0 THEN [ok |-> FALSE, key |-> k4]
       ELSE [ok |-> TRUE, key |-> k4]

\* LaMarzoccoAuth::save_installation_key
save_installation_key(p, key) ==
    [p EXCEPT !.INST_ID = key.installation_id,
              !.INST_SECRET = Blob(SecretLen, key.secret),
              !.INST_PRIVKEY = key.private_key,
              !.INST_PUBKEY = key.public_key,
              !.INST_PRIVLEN = key.private_key.len,
              !.INST_PUBLEN = key.public_key.len]

\* LaMarzoccoAuth::generate_installation_key; genOk is the outcome of the
\* mbedtls calls.  ok is the return value, key the output parameter.
generate_installation_key(installation_id, genOk) ==
    [ok |-> genOk,
     key |-> IF genOk THEN InstallationKey(installation_id)
             ELSE [NoKey EXCEPT !.installation_id = installation_id]]

\* the store with the identity n saved by a configured device
SavedStore(n) ==
    save_installation_key([EmptyStore EXCEPT !.USER = TRUE, !.MACHINE = TRUE],
                          InstallationKey(n))

(***************************************************************************)
(* The world an operation runs in: the objects' fields, the clock, and the *)
(* effects the operation has had so far (frames handed to sendTXT, HTTP    *)
(* requests sent, upgrade requests put on the wire, bodies handed to the   *)
(* consumer, functions called).  Every operation maps a world to a world.  *)
(***************************************************************************)
NoHeaders ==
    [installation_id |-> 0, timestamp |-> 0, nonce |-> 0, signature |-> 0,
     proof_input |-> <<0, 0, 0>>]

World ==
    [millis |-> millis, synced |-> synced, client |-> client, ws |-> ws,
     machine |-> machine, ids |-> ids, prefs |-> prefs,
     sent |-> <<>>, http |-> <<>>, wire |-> <<>>, delivered |-> <<>>,
     calls |-> <<>>, hdr |-> NoHeaders, ret |-> FALSE, ovf |-> FALSE]

Called(w, f) == [w EXCEPT !.calls = Append(@, f)]
Return(w, r) == [w EXCEPT !.ret = r]

\* esp_fill_random: 16 bytes never drawn before, here the next number
esp_fill_random(w) ==
    [w EXCEPT !.ids.uuid = (@ % MaxUuid) + 1,
              !.ovf = @ \/ w.ids.uuid >= MaxUuid]

\* the UUID is w.ids.uuid of the resulting world; it is never empty
generate_uuid(w) == esp_fill_random(w)

\* the service issues a token pair never issued before
IssueToken(w) ==
    [w EXCEPT !.ids.tok = (@ % MaxTok) + 1,
              !.ovf = @ \/ w.ids.tok >= MaxTok]

\* getLocalTime() && mktime(), else millis() / 1000.  Times are unsigned long in
\* the code; within the clock's bound every sum and difference taken of them
\* stays between 0 and 2^31, so none wraps.
NowSeconds(w) ==
    IF w.synced THEN EpochBase + (w.millis \div 1000)
    ELSE w.millis \div 1000

(***************************************************************************)
(* LaMarzoccoAuth::generate_extra_request_headers.  signOk is the outcome  *)
(* of mbedtls_pk_parse_key and mbedtls_ecdsa_write_signature; the result   *)
(* is left in w.hdr, with signature 0 for the empty string.  proof_input   *)
(* is the text the proof and the signature are computed over: installation *)
(* id, nonce and timestamp.  The timestamp is String(millis()), here the   *)
(* number itself.                                                          *)
(***************************************************************************)
generate_extra_request_headers(w, signOk) ==
    LET w1 == generate_uuid(w)
    IN [w1 EXCEPT !.hdr = [installation_id |-> 1,
                           timestamp |-> w.millis,
                           nonce |-> w1.ids.uuid,
                           signature |-> IF signOk THEN w1.ids.uuid ELSE 0,
                           proof_input |-> <<1, w1.ids.uuid, w.millis>>],
                  !.calls = Append(@, "generate_extra_request_headers")]

(***************************************************************************)
(* LaMarzoccoClient.                                                       *)
(***************************************************************************)
\* responses of the service to sign-in and refresh: the status, which of
\* accessToken and refreshToken the body holds ("all": both, non-empty;
\* "noRefreshToken": no such field; "emptyRefreshToken", "emptyAccessToken":
\* the field holds the empty string; "none": no field, or a body that is not
\* JSON), and expiresIn (0 when the field is missing)
ExpiresInShort == 10
ExpiresInLong == 620
Responses ==
    {[code |-> 200, fields |-> "all", expiresIn |-> ExpiresInLong],
     [code |-> 200, fields |-> "all", expiresIn |-> ExpiresInShort],
     [code |-> 200, fields |-> "noRefreshToken", expiresIn |-> ExpiresInLong],
     [code |-> 200, fields |-> "emptyRefreshToken", expiresIn |-> ExpiresInLong],
     [code |-> 200, fields |-> "emptyAccessToken", expiresIn |-> ExpiresInLong],
     [code |-> 200, fields |-> "all", expiresIn |-> 0],
     [code |-> 200, fields |-> "none", expiresIn |-> 0],
     [code |-> 401, fields |-> "none", expiresIn |-> 0]}

\* the outcomes of the network exchanges of one get_access_token() call:
\* whether signing the requests works, the response to the first request, and
\* the response to the sign-in a failed refresh falls back to
NetChoices ==
    {n \in [s : BOOLEAN, r1 : Responses, r2 : Responses] :
        n.r1.code = 200 => n.r2 = n.r1}

\* the same with signing that works and responses that hold every field
WellFormed(r) == r.code = 200 => (r.fields = "all" /\ r.expiresIn > 0)
PlainNetChoices == {n \in NetChoices : n.s /\ WellFormed(n.r1) /\ WellFormed(n.r2)}

\* the answer of the service to an API request: a status
Answer(code) == [code |-> code, fields |-> "", expiresIn |-> 0]

\* HTTPClient::POST and friends: the request as it leaves, and the response
\* the service answers it with
HttpSend(w, endpoint, bearer, refreshToken, resp) ==
    [w EXCEPT !.http = Append(@, [endpoint |-> endpoint,
                                  nonce |-> w.hdr.nonce,
                                  timestamp |-> w.hdr.timestamp,
                                  signature |-> w.hdr.signature,
                                  proof_input |-> w.hdr.proof_input,
                                  bearer |-> bearer,
                                  refreshToken |-> refreshToken,
                                  code |-> resp.code,
                                  fields |-> resp.fields,
                                  expiresIn |-> resp.expiresIn])]

_add_auth_headers(w, signOk) == generate_extra_request_headers(w, signOk)

isValid(w) ==
    w.client.access_token # 0 /\ w.client.expires_at > (w.millis \div 1000)

ExpiresAt(w, resp) == NowSeconds(w) + resp.expiresIn

\* response_doc["accessToken"].as<String>(), tok being the token issued
AccessTokenOf(resp, tok) ==
    IF resp.fields = "none" THEN NullText
    ELSE IF resp.fields = "emptyAccessToken" THEN 0
    ELSE tok

\* response_doc["refreshToken"].as<String>()
RefreshTokenOf(resp, tok) ==
    IF resp.fields \in {"none", "noRefreshToken"} THEN NullText
    ELSE IF resp.fields = "emptyRefreshToken" THEN 0
    ELSE tok

\* a faulty variant: the refresh token is taken from every response
HasRefreshToken_always(resp) == TRUE

\* response_doc.containsKey("refreshToken")
HasRefreshToken(resp) == resp.fields \notin {"none", "noRefreshToken"}

_sign_in(w, signOk, resp) ==
    LET w1 == _add_auth_headers(Called(w, "_sign_in"), signOk)
        w2 == HttpSend(w1, "/auth/signin", 0, 0, resp)
        w3 == IF resp.fields = "none" THEN w2 ELSE IssueToken(w2)
    IN IF resp.code = 200
       THEN Return([w3 EXCEPT
                !.client.access_token = AccessTokenOf(resp, w3.ids.tok),
                !.client.refresh_token = RefreshTokenOf(resp, w3.ids.tok),
                !.client.expires_at = ExpiresAt(w, resp)], TRUE)
       ELSE Return(w2, FALSE)

\* a faulty variant: a refused refresh is reported without a sign-in
_refresh_token_noFallback(w, net) ==
    IF w.client.refresh_token = 0
    THEN _sign_in(Called(w, "_refresh_token"), net.s, net.r1)
    ELSE LET w1 == _add_auth_headers(Called(w, "_refresh_token"), net.s)
             w2 == HttpSend(w1, "/auth/refreshtoken", 0, w.client.refresh_token,
                            net.r1)
             w3 == IF net.r1.fields = "none" THEN w2 ELSE IssueToken(w2)
         IN IF net.r1.code = 200
            THEN Return([w3 EXCEPT
                     !.client.access_token = AccessTokenOf(net.r1, w3.ids.tok),
                     !.client.refresh_token =
                         IF HasRefreshToken(net.r1)
                         THEN RefreshTokenOf(net.r1, w3.ids.tok) ELSE @,
                     !.client.expires_at = ExpiresAt(w, net.r1)], TRUE)
            ELSE Return(w2, FALSE)

\* LaMarzoccoClient::_refresh_token
_refresh_token(w, net) ==
    IF w.client.refresh_token = 0
    THEN _sign_in(Called(w, "_refresh_token"), net.s, net.r1)
    ELSE LET w1 == _add_auth_headers(Called(w, "_refresh_token"), net.s)
             w2 == HttpSend(w1, "/auth/refreshtoken", 0, w.client.refresh_token,
                            net.r1)
             w3 == IF net.r1.fields = "none" THEN w2 ELSE IssueToken(w2)
         IN IF net.r1.code = 200
            THEN Return([w3 EXCEPT
                     !.client.access_token = AccessTokenOf(net.r1, w3.ids.tok),
                     !.client.refresh_token =
                         IF HasRefreshToken(net.r1)
                         THEN RefreshTokenOf(net.r1, w3.ids.tok) ELSE @,
                     !.client.expires_at = ExpiresAt(w, net.r1)], TRUE)
            ELSE _sign_in(w2, net.s, net.r2)

\* a faulty variant: a token counts as good until it expires, without margin
get_access_token_noMargin(w, net) ==
    LET w0 == Called(w, "get_access_token")
        now == NowSeconds(w)
    IN IF ~w.client.initialized THEN Return(w0, FALSE)
       ELSE IF ~isValid(w)
       THEN IF w.client.refresh_token # 0 /\ w.client.expires_at > now
            THEN _refresh_token(w0, net)
            ELSE _sign_in(w0, net.s, net.r1)
       ELSE Return(w0, TRUE)

\* a faulty variant: the check reads the monotonic clock even after time sync
get_access_token_monotonicNow(w, net) ==
    LET w0 == Called(w, "get_access_token")
        now == w.millis \div 1000
    IN IF ~w.client.initialized THEN Return(w0, FALSE)
       ELSE IF ~isValid(w)
               \/ w.client.expires_at < now + TOKEN_TIME_TO_REFRESH
       THEN IF w.client.refresh_token # 0 /\ w.client.expires_at > now
            THEN _refresh_token(w0, net)
            ELSE _sign_in(w0, net.s, net.r1)
       ELSE Return(w0, TRUE)

\* LaMarzoccoClient::get_access_token
get_access_token(w, net) ==
    LET w0 == Called(w, "get_access_token")
        now == NowSeconds(w)
    IN IF ~w.client.initialized THEN Return(w0, FALSE)
       ELSE IF ~isValid(w)
               \/ w.client.expires_at < now + TOKEN_TIME_TO_REFRESH
       THEN IF w.client.refresh_token # 0 /\ w.client.expires_at > now
            THEN _refresh_token(w0, net)
            ELSE _sign_in(w0, net.s, net.r1)
       ELSE Return(w0, TRUE)

get_installation_key(w) == w.client.initialized

is_initialized(w) == w.client.initialized

\* LaMarzoccoClient::init: the key is loaded into the member in place
init(w, serial_number) ==
    LET loaded == load_installation_key(w.prefs, w.client.installation_key)
        w1 == Called([w EXCEPT !.client.serial_number = serial_number,
                               !.client.installation_key = loaded.key], "init")
    IN IF ~loaded.ok THEN Return(w1, FALSE)
       ELSE Return([w1 EXCEPT !.client.initialized = TRUE], TRUE)

(***************************************************************************)
(* WebSocketsClient (the transport library), as the channel uses it.       *)
(* link is "closed", "upgrading" (the upgrade request is on the wire) or   *)
(* "open"; begun says that beginSSL has named the endpoint.                *)
(***************************************************************************)
ws_sendTXT(w, frame) == [w EXCEPT !.sent = Append(@, frame)]

ws_disconnect(w) == [w EXCEPT !.ws.link = "closed"]

ws_setReconnectInterval(w, ms) == [w EXCEPT !.ws.reconnectInterval = ms]

ws_setExtraHeaders(w, hdr) == [w EXCEPT !.ws.extraHeaders = hdr]

ws_beginSSL(w) ==
    [w EXCEPT !.ws.begun = TRUE, !.ws.link = "closed",
              !.calls = Append(@, "beginSSL")]

(***************************************************************************)
(* LaMarzoccoWebSocket.                                                    *)
(***************************************************************************)
ConnectHeaders(token) ==
    <<"host:" \o WS_BASE_URL, LF, "accept-version:1.2,1.1,1.0", LF,
      "heart-beat:0,0", LF, "Authorization:Bearer ">>
        \o Text("token", token) \o <<LF>>

SubscribeHeaders(serial, id) ==
    <<"destination:/ws/sn/">> \o serial \o <<"/dashboard", LF, "ack:auto", LF,
      "id:">> \o Text("uuid", id) \o <<LF, "content-length:0", LF>>

UnsubscribeHeaders(id) == <<"id:">> \o Text("uuid", id) \o <<LF>>

\* a faulty variant: the subscription id and the cached token are kept
disconnect_keepsSession(w) ==
    LET was_connected == w.ws.connected
        w1 == ws_setReconnectInterval(
                  [Called(w, "disconnect") EXCEPT !.ws.connected = FALSE], 0)
        w2 == IF was_connected /\ w1.ws.subscription_id # 0
              THEN ws_sendTXT(w1, _encode_stomp_message(<<"UNSUBSCRIBE">>,
                                  UnsubscribeHeaders(w1.ws.subscription_id), <<>>))
              ELSE w1
    IN ws_setReconnectInterval(ws_disconnect(w2), ReconnectInterval)

\* LaMarzoccoWebSocket::disconnect
disconnect(w) ==
    LET was_connected == w.ws.connected
        w1 == ws_setReconnectInterval(
                  [Called(w, "disconnect") EXCEPT !.ws.connected = FALSE], 0)
        w2 == IF was_connected /\ w1.ws.subscription_id # 0
              THEN ws_sendTXT(w1, _encode_stomp_message(<<"UNSUBSCRIBE">>,
                                  UnsubscribeHeaders(w1.ws.subscription_id), <<>>))
              ELSE w1
        w3 == ws_disconnect(w2)
    IN ws_setReconnectInterval(
           [w3 EXCEPT !.ws.subscription_id = 0, !.ws.cached_token = 0],
           ReconnectInterval)

\* case WStype_DISCONNECTED
OnDisconnected(w) == [w EXCEPT !.ws.connected = FALSE]

\* a faulty variant: the channel counts as connected once CONNECT is sent
OnOpen_marksConnected(w, txOk) ==
    IF w.ws.cached_token = 0 THEN ws_disconnect(w)
    ELSE LET w1 == ws_sendTXT(w, _encode_stomp_message(<<"CONNECT">>,
                                  ConnectHeaders(w.ws.cached_token), <<>>))
         IN IF txOk THEN [w1 EXCEPT !.ws.connected = TRUE] ELSE ws_disconnect(w1)

\* a faulty variant: the token is read from the client when the transport opens
OnOpen_readsClient(w, txOk) ==
    IF w.client.access_token = 0 THEN ws_disconnect(w)
    ELSE LET w1 == ws_sendTXT(Called(w, "get_access_token_string"),
                       _encode_stomp_message(<<"CONNECT">>,
                           ConnectHeaders(w.client.access_token), <<>>))
         IN IF txOk THEN w1 ELSE ws_disconnect(w1)

\* case WStype_CONNECTED: the transport is open; txOk is what sendTXT returns
OnOpen(w, txOk) ==
    IF w.ws.cached_token = 0 THEN ws_disconnect(w)
    ELSE LET w1 == ws_sendTXT(w, _encode_stomp_message(<<"CONNECT">>,
                                  ConnectHeaders(w.ws.cached_token), <<>>))
         IN IF txOk THEN w1 ELSE ws_disconnect(w1)

\* a faulty variant: a subscription id, once made, is kept for the next SUBSCRIBE
OnStompConnected_keepsId(w) ==
    LET w1 == IF w.ws.subscription_id = 0 THEN generate_uuid(w) ELSE w
        w2 == IF w.ws.subscription_id = 0
              THEN [w1 EXCEPT !.ws.subscription_id = w1.ids.uuid] ELSE w1
    IN [ws_sendTXT(w2, _encode_stomp_message(<<"SUBSCRIBE">>,
            SubscribeHeaders(w2.ws.serial_number, w2.ws.subscription_id), <<>>))
        EXCEPT !.ws.connected = TRUE]

\* the branch of case WStype_TEXT taken for a CONNECTED frame
OnStompConnected(w) ==
    LET w1 == generate_uuid(w)
        w2 == [w1 EXCEPT !.ws.subscription_id = w1.ids.uuid]
    IN IF w2.ws.subscription_id = 0 THEN ws_disconnect(w2)
       ELSE [ws_sendTXT(w2, _encode_stomp_message(<<"SUBSCRIBE">>,
                 SubscribeHeaders(w2.ws.serial_number, w2.ws.subscription_id), <<>>))
             EXCEPT !.ws.connected = TRUE]

\* a faulty variant: the body reaches the consumer stripped of outer whitespace
OnStompMessage_trimmed(w, body) ==
    IF w.ws.message_callback THEN [w EXCEPT !.delivered = Append(@, Trim(body))]
    ELSE w

\* the branch of case WStype_TEXT taken for a MESSAGE frame
OnStompMessage(w, body) ==
    IF w.ws.message_callback THEN [w EXCEPT !.delivered = Append(@, body)]
    ELSE w

\* a faulty variant: an ERROR frame ends the session
OnText_errorCloses(w, payload) ==
    LET d == _decode_stomp_message(payload, <<>>, <<>>, <<>>)
    IN IF d.ok
       THEN IF d.command = <<"CONNECTED">> THEN OnStompConnected(w)
            ELSE IF d.command = <<"MESSAGE">> THEN OnStompMessage(w, d.body)
            ELSE IF d.command = <<"ERROR">>
            THEN ws_disconnect([w EXCEPT !.ws.connected = FALSE])
            ELSE w
       ELSE w

\* case WStype_TEXT
OnText(w, payload) ==
    LET d == _decode_stomp_message(payload, <<>>, <<>>, <<>>)
    IN IF d.ok
       THEN IF d.command = <<"CONNECTED">> THEN OnStompConnected(w)
            ELSE IF d.command = <<"MESSAGE">> THEN OnStompMessage(w, d.body)
            ELSE w
       ELSE w

\* a faulty variant: a transport error leaves the flag as it was
OnError_keepsFlag(w) == w

\* case WStype_ERROR
OnError(w) == [w EXCEPT !.ws.connected = FALSE]

\* an event of the transport: its type, payload, and what sendTXT will return
_handle_websocket_event(w, ev) ==
    LET w0 == Called(w, "_handle_websocket_event")
    IN CASE ev.type = "WStype_DISCONNECTED" -> OnDisconnected(w0)
         [] ev.type = "WStype_CONNECTED" -> OnOpen(w0, ev.txOk)
         [] ev.type = "WStype_TEXT" -> OnText(w0, ev.payload)
         [] ev.type = "WStype_ERROR" -> OnError(w0)
         [] OTHER -> w0

\* a faulty variant: the signature is not looked at before the endpoint is named
connect_ignoresSignature(w, serial_number, net, signOk) ==
    LET w0 == [Called(w, "connect") EXCEPT !.ws.serial_number = serial_number]
        w1 == get_access_token(w0, net)
        w2 == [Called(w1, "get_access_token_string")
                  EXCEPT !.ws.cached_token = w1.client.access_token]
        w3 == IF w2.ws.connected THEN disconnect(w2) ELSE w2
        w4 == generate_extra_request_headers(w3, signOk)
        w5 == ws_disconnect(ws_setExtraHeaders(w4, w4.hdr))
    IN IF ~w1.ret THEN Return(w1, FALSE)
       ELSE IF w2.ws.cached_token = 0 THEN Return(w2, FALSE)
       ELSE IF ~get_installation_key(w3) THEN Return(w3, FALSE)
       ELSE Return(ws_beginSSL(w5), TRUE)

\* LaMarzoccoWebSocket::connect
connect(w, serial_number, net, signOk) ==
    LET w0 == [Called(w, "connect") EXCEPT !.ws.serial_number = serial_number]
        w1 == get_access_token(w0, net)
        w2 == [Called(w1, "get_access_token_string")
                  EXCEPT !.ws.cached_token = w1.client.access_token]
        w3 == IF w2.ws.connected THEN disconnect(w2) ELSE w2
        w4 == generate_extra_request_headers(w3, signOk)
        w5 == ws_disconnect(ws_setExtraHeaders(w4, w4.hdr))
    IN IF ~w1.ret THEN Return(w1, FALSE)
       ELSE IF w2.ws.cached_token = 0 THEN Return(w2, FALSE)
       ELSE IF ~get_installation_key(w3) THEN Return(w3, FALSE)
       ELSE IF w4.hdr.signature = 0 THEN Return(w4, FALSE)
       ELSE Return(ws_beginSSL(w5), TRUE)

(***************************************************************************)
(* LaMarzoccoClient::api_call.  code is the status the service answers.    *)
(***************************************************************************)
HttpMethods == {"GET", "POST", "PUT", "DELETE"}

\* a faulty variant: the request goes out whatever the token check said
api_call_ignoresToken(w, method, net, signOk, code) ==
    LET w1 == get_access_token(Called(w, "api_call"), net)
        w2 == _add_auth_headers(w1, signOk)
        w3 == HttpSend(w2, "/things", w2.client.access_token, 0, Answer(code))
    IN IF method \in HttpMethods
       THEN Return(w3, code >= 200 /\ code < 300)
       ELSE Return(w2, FALSE)

api_call(w, method, net, signOk, code) ==
    LET w1 == get_access_token(Called(w, "api_call"), net)
        w2 == _add_auth_headers(w1, signOk)
        w3 == HttpSend(w2, "/things", w2.client.access_token, 0, Answer(code))
    IN IF ~w1.ret THEN Return(w1, FALSE)
       ELSE IF method \in HttpMethods
       THEN Return(w3, code >= 200 /\ code < 300)
       ELSE Return(w2, FALSE)

(***************************************************************************)
(* WebSocketsClient::loop, reached through LaMarzoccoWebSocket::loop: one  *)
(* thing the transport does in a call.  With an endpoint named, the link   *)
(* down and a reconnect interval set, it connects and puts the upgrade     *)
(* request, with the extra headers last set, on the wire; otherwise it     *)
(* delivers one event to the handler.                                      *)
(***************************************************************************)
Inbound ==
    {<<"CONNECTED", LF, "version:1.1", LF, LF, NUL>>,
     <<"MESSAGE", LF, "destination:/x", LF, LF, "{a:1}", NUL>>,
     <<"ERROR", LF, "message:rejected", LF, LF, NUL>>,
     <<"RECEIPT", LF, LF, NUL>>,
     <<"MESSAGE", LF, "destination:/x">>}

LibSteps(w) ==
    (IF w.ws.begun /\ w.ws.link = "closed" /\ w.ws.reconnectInterval > 0
     THEN {[type |-> "attempt", payload |-> <<>>, txOk |-> TRUE]} ELSE {})
    \cup
    (IF w.ws.link = "upgrading"
     THEN {[type |-> "WStype_CONNECTED", payload |-> <<>>, txOk |-> b] : b \in BOOLEAN}
     ELSE {})
    \cup
    (IF w.ws.link = "open"
     THEN {[type |-> "WStype_TEXT", payload |-> p, txOk |-> TRUE] : p \in Inbound}
          \cup {[type |-> "WStype_PONG", payload |-> <<>>, txOk |-> TRUE]}
     ELSE {})
    \cup
    (IF w.ws.link # "closed"
     THEN {[type |-> t, payload |-> <<>>, txOk |-> TRUE] :
              t \in {"WStype_DISCONNECTED", "WStype_ERROR"}}
     ELSE {})

ws_loop(w, step) ==
    CASE step.type = "idle" -> w
      [] step.type = "attempt" ->
            [w EXCEPT !.ws.link = "upgrading", !.wire = Append(@, w.ws.extraHeaders)]
      [] step.type = "WStype_CONNECTED" ->
            _handle_websocket_event([w EXCEPT !.ws.link = "open"], step)
      [] step.type = "WStype_DISCONNECTED" ->
            _handle_websocket_event([w EXCEPT !.ws.link = "closed"], step)
      [] OTHER -> _handle_websocket_event(w, step)

\* LaMarzoccoWebSocket::loop
loop(w, step) == ws_loop(Called(w, "loop"), step)

(***************************************************************************)
(* LaMarzoccoMachine.                                                      *)
(***************************************************************************)
is_websocket_connected(w) == w.ws.connected

get_serial_number(w) == w.client.serial_number

connect_websocket(w, net, signOk) ==
    LET w0 == Called(w, "connect_websocket")
    IN IF is_websocket_connected(w) THEN Return(w0, TRUE)
       ELSE IF get_serial_number(w) = <<>> THEN Return(w0, FALSE)
       ELSE connect(w0, get_serial_number(w), net, signOk)

\* a faulty variant: the reconnect is attempted without regard to the interval
machine_loop_noInterval(w, step, net, signOk) ==
    LET w1 == loop(Called(w, "machine_loop"), step)
        now == w.millis
    IN IF ~is_websocket_connected(w1)
       THEN connect_websocket(
                [w1 EXCEPT !.machine.last_reconnect_attempt = now], net, signOk)
       ELSE w1

\* LaMarzoccoMachine::loop
machine_loop(w, step, net, signOk) ==
    LET w1 == loop(Called(w, "machine_loop"), step)
        now == w.millis
    IN IF ~is_websocket_connected(w1)
          /\ now - w1.machine.last_reconnect_attempt >= RECONNECT_INTERVAL_MS
       THEN connect_websocket(
                [w1 EXCEPT !.machine.last_reconnect_attempt = now], net, signOk)
       ELSE w1

(***************************************************************************)
(* What a step is seen to do (obs) and what the run has done so far (hist).*)
(***************************************************************************)
Range(f) == {f[i] : i \in DOMAIN f}

NoStep == [type |-> "none", payload |-> <<>>, txOk |-> TRUE]

\* the frames of a sequence of sent frames that carry the given command
FramesOf(sent, command) == {f \in Range(sent) : f[1] = command}

\* the value atoms that follow a header key atom in a frame, up to the LF
HeaderValue(frame, key) ==
    LET at == CHOOSE i \in 1..Len(frame) : frame[i] = key
        end == CHOOSE j \in (at + 1)..Len(frame) :
                   frame[j] = LF /\ \A k \in (at + 1)..(j - 1) : frame[k] # LF
    IN SubSeq(frame, at + 1, end - 1)

IsStompConnected(step) ==
    step.type = "WStype_TEXT"
    /\ _decode_stomp_message(step.payload, <<>>, <<>>, <<>>).ok
    /\ _decode_stomp_message(step.payload, <<>>, <<>>, <<>>).command = <<"CONNECTED">>

\* the step ends a connection attempt: the handshake completes with a
\* CONNECTED frame, or the attempt fails with a disconnect or error event, an
\* ERROR frame, or the channel closing the socket itself
EndsAttempt(w, op, step) ==
    \/ step.type \in {"WStype_DISCONNECTED", "WStype_ERROR"}
    \/ IsStompConnected(step)
    \/ /\ step.type = "WStype_TEXT"
       /\ _decode_stomp_message(step.payload, <<>>, <<>>, <<>>).ok
       /\ _decode_stomp_message(step.payload, <<>>, <<>>, <<>>).command = <<"ERROR">>
    \/ step.type = "WStype_CONNECTED" /\ w.ws.link = "closed"
    \/ op = "disconnect"

ObsOf(w, op, step) ==
    [op |-> op, step |-> step, ret |-> w.ret, sent |-> w.sent, http |-> w.http,
     wire |-> w.wire, delivered |-> w.delivered, calls |-> w.calls,
     hdr |-> w.hdr]

HistAfter(w, op, step) ==
    LET subs == FramesOf(w.sent, "SUBSCRIBE")
        opened == step.type = "WStype_CONNECTED"
    IN [subscriptionIds |->
            hist.subscriptionIds \cup {HeaderValue(f, "id:") : f \in subs},
        linkSubscribes |->
            (IF opened THEN 0 ELSE hist.linkSubscribes) + Cardinality(subs),
        linkConnected |->
            (IF opened THEN 0 ELSE hist.linkConnected)
                + (IF IsStompConnected(step) THEN 1 ELSE 0),
        wireNonces |->
            hist.wireNonces \cup {w.wire[i].nonce : i \in DOMAIN w.wire},
        tokenFetched |->
            IF "get_access_token_string" \in Range(w.calls) THEN TRUE
            ELSE IF FramesOf(w.sent, "CONNECT") # {} THEN FALSE
            ELSE hist.tokenFetched,
        armed |->
            IF "beginSSL" \in Range(w.calls) THEN TRUE
            ELSE IF Len(w.wire) > 0 THEN FALSE
            ELSE hist.armed,
        connectToken |->
            IF op = "connect" /\ w.ret THEN w.client.access_token
            ELSE IF op \in {"connect", "disconnect"} THEN 0
            ELSE hist.connectToken,
        loopConnectAt |->
            IF op = "machine_loop" /\ "connect" \in Range(w.calls) THEN w.millis
            ELSE hist.loopConnectAt,
        attempting |->
            IF "beginSSL" \in Range(w.calls) THEN TRUE
            ELSE IF EndsAttempt(w, op, step) THEN FALSE
            ELSE hist.attempting]

Commit(w, op, step) ==
    /\ client' = w.client
    /\ ws' = w.ws
    /\ machine' = w.machine
    /\ ids' = w.ids
    /\ prefs' = w.prefs
    /\ obs' = ObsOf(w, op, step)
    /\ hist' = HistAfter(w, op, step)
    /\ UNCHANGED <<millis, synced, calc, wifi, display>>

\* the outcomes, among choices, that a get_access_token() call can meet in the
\* current state: one of them when the call makes no request, and one for
\* each first response when the call signs in without a refresh before it
NetFor(w, choices) ==
    IF w.client.initialized
       /\ (~isValid(w)
           \/ w.client.expires_at < NowSeconds(w) + TOKEN_TIME_TO_REFRESH)
    THEN IF w.client.refresh_token # 0 /\ w.client.expires_at > NowSeconds(w)
         THEN choices
         ELSE {n \in choices : n.r2 = n.r1}
    ELSE {n \in choices : n.s /\ n.r1.code = 401 /\ n.r2.code = 401}

(***************************************************************************)
(* Initial state: the objects as setup() constructs them.  expires_at is   *)
(* not initialised by the constructor; it is not read before a sign-in     *)
(* sets it, because every read is guarded by a non-empty access token.     *)
(***************************************************************************)
InitClient(initialized) ==
    [initialized |-> initialized, serial_number |-> <<SerialNo>>,
     installation_key |-> IF initialized THEN InstallationKey(1) ELSE NoKey,
     access_token |-> 0, refresh_token |-> 0, expires_at |-> 0]

InitWs ==
    [connected |-> FALSE, serial_number |-> <<>>, subscription_id |-> 0,
     cached_token |-> 0, message_callback |-> TRUE,
     begun |-> FALSE, link |-> "closed", extraHeaders |-> NoHeaders,
     reconnectInterval |-> ReconnectInterval]

\* booted: setup() has run; started: it has constructed g_machine
InitMachine ==
    [booted |-> FALSE, started |-> FALSE, power_state |-> FALSE,
     steam_state |-> FALSE, last_reconnect_attempt |-> 0]

InitHist ==
    [subscriptionIds |-> {}, linkSubscribes |-> 0, linkConnected |-> 0,
     wireNonces |-> {}, tokenFetched |-> FALSE, armed |-> FALSE,
     connectToken |-> 0, loopConnectAt |-> -1, attempting |-> FALSE]

(***************************************************************************)
(* The WiFi monitor: the statics of checkWiFiConnection, and beside them   *)
(* what an observer of its calls has seen (seen: WiFi.isConnected() at the *)
(* last call; since the call that first found WiFi down after it was up:   *)
(* the attempts made, the time of the last one, the time the last timeout  *)
(* was found, whether the error screen was shown).  did holds what the     *)
(* last call has done.  Times stay far below 2^32, so no unsigned          *)
(* difference wraps.                                                       *)
(***************************************************************************)
WIFI_CHECK_INTERVAL == 5000
WIFI_RECONNECT_DELAY == 30000
WIFI_CONNECT_TIMEOUT == 15000
MAX_RECONNECT_ATTEMPTS == 5

Nothing == [reconnect |-> FALSE, timeout |-> FALSE, screen |-> FALSE]

NoEpisode ==
    [active |-> FALSE, attempts |-> 0, lastAttemptAt |-> -1, lastTimeoutAt |-> -1,
     failed |-> FALSE]

InitWifi ==
    [wasConnected |-> FALSE, lastWiFiCheck |-> 0, reconnectStartTime |-> 0,
     waitUntilTime |-> 0, reconnectAttempts |-> 0, isReconnecting |-> FALSE,
     waitingForConnection |-> FALSE,
     did |-> Nothing, seen |-> FALSE, episode |-> NoEpisode]

\* the regular status check that ends the function
RegularCheck(s, currentMillis) ==
    IF currentMillis - s.lastWiFiCheck >= WIFI_CHECK_INTERVAL
    THEN [s EXCEPT !.lastWiFiCheck = currentMillis]
    ELSE s

\* the branch taken while a connection attempt is pending; limit is the number
\* of attempts after which the error screen is shown
WhileWaiting(s, currentMillis, limit) ==
    IF currentMillis - s.reconnectStartTime >= WIFI_CONNECT_TIMEOUT
    THEN IF s.reconnectAttempts >= limit
         THEN [s EXCEPT !.waitingForConnection = FALSE,
                        !.isReconnecting = FALSE,
                        !.reconnectAttempts = 0,
                        !.wasConnected = FALSE,
                        !.did = [reconnect |-> FALSE, timeout |-> TRUE, screen |-> TRUE]]
         ELSE [s EXCEPT !.waitingForConnection = FALSE,
                        !.waitUntilTime = currentMillis + WIFI_RECONNECT_DELAY,
                        !.did = [reconnect |-> FALSE, timeout |-> TRUE, screen |-> FALSE]]
    ELSE RegularCheck(s, currentMillis)

\* the function from the first detection of the disconnection on
WhileDown(s, currentMillis, limit) ==
    IF s.waitingForConnection THEN WhileWaiting(s, currentMillis, limit)
    ELSE IF currentMillis >= s.waitUntilTime
    THEN RegularCheck([s EXCEPT !.reconnectAttempts = @ + 1,
                                !.reconnectStartTime = currentMillis,
                                !.waitingForConnection = TRUE,
                                !.did = [reconnect |-> TRUE, timeout |-> FALSE,
                                         screen |-> FALSE]],
                      currentMillis)
    ELSE RegularCheck(s, currentMillis)

\* a faulty variant: the attempt counter survives the reconnection
WhenUp_keepsCount(s) ==
    IF s.isReconnecting
    THEN [s EXCEPT !.isReconnecting = FALSE, !.waitingForConnection = FALSE,
                   !.wasConnected = TRUE, !.did = Nothing]
    ELSE [s EXCEPT !.wasConnected = TRUE, !.did = Nothing]

\* the function when WiFi is connected
WhenUp(s) ==
    IF s.isReconnecting
    THEN [s EXCEPT !.isReconnecting = FALSE, !.waitingForConnection = FALSE,
                   !.reconnectAttempts = 0, !.wasConnected = TRUE, !.did = Nothing]
    ELSE [s EXCEPT !.wasConnected = TRUE, !.did = Nothing]

\* a faulty variant: the error screen waits for one attempt more
checkWiFiConnection_oneMore(s, currentMillis, isConnected) ==
    IF isConnected THEN WhenUp(s)
    ELSE IF s.wasConnected
    THEN IF ~s.isReconnecting
         THEN WhileDown([s EXCEPT !.isReconnecting = TRUE, !.reconnectAttempts = 0,
                                  !.waitUntilTime = 0, !.waitingForConnection = FALSE,
                                  !.did = Nothing],
                        currentMillis, MAX_RECONNECT_ATTEMPTS + 1)
         ELSE WhileDown([s EXCEPT !.did = Nothing], currentMillis,
                        MAX_RECONNECT_ATTEMPTS + 1)
    ELSE RegularCheck([s EXCEPT !.did = Nothing], currentMillis)

\* checkWiFiConnection with millis() = currentMillis and WiFi.isConnected() =
\* isConnected, on the statics s
checkWiFiConnection(s, currentMillis, isConnected) ==
    IF isConnected THEN WhenUp(s)
    ELSE IF s.wasConnected
    THEN IF ~s.isReconnecting
         THEN WhileDown([s EXCEPT !.isReconnecting = TRUE, !.reconnectAttempts = 0,
                                  !.waitUntilTime = 0, !.waitingForConnection = FALSE,
                                  !.did = Nothing],
                        currentMillis, MAX_RECONNECT_ATTEMPTS)
         ELSE WhileDown([s EXCEPT !.did = Nothing], currentMillis,
                        MAX_RECONNECT_ATTEMPTS)
    ELSE RegularCheck([s EXCEPT !.did = Nothing], currentMillis)

(***************************************************************************)
(* The display: two boiler gauges, the brewing timer and the water alarm.  *)
(* One record d holds the statics of boiler_display.cpp, brewing_display   *)
(* .cpp and the water alarm and what the LVGL objects they write show.     *)
(* got is the outcome of TAKE_MUTEX(): the block it guards runs only when  *)
(* the GUI mutex was obtained within 100 ms.  now_ms is gettimeofday() in  *)
(* milliseconds and ms is millis().  A boiler's last_remaining_sec is left  *)
(* out: the code writes it and computes force_update from it, and then     *)
(* updates the gauge whatever force_update is.  Of the LVGL objects, the    *)
(* record holds the two arcs, the two labels and the seconds panel; the    *)
(* buttons, icons, temperature labels and alarm image are left out.        *)
(***************************************************************************)
BOILER_COFFEE == 0
BOILER_STEAM == 1
WARMUP_DURATION_SEC == 300
FLASH_DURATION_MS == 3000
FLASH_TOGGLE_MS == 200
DisplayEpoch == 100000

\* C's integer division truncates toward zero
TruncDiv(a, b) == IF a >= 0 THEN a \div b ELSE -((-a) \div b)

InitBoiler ==
    [state |-> "OFF", ready_start_time |-> 0,
     arc_value |-> 0, label |-> <<"OFF">>,
     arc_hidden |-> FALSE, label_hidden |-> FALSE]

InitDisplay ==
    [boilers |-> [i \in {BOILER_COFFEE, BOILER_STEAM} |-> InitBoiler],
     timer |-> [paused |-> TRUE, period |-> 30000, last_run |-> 0],
     g_state |-> "IDLE", g_brewing_start_time |-> 0, g_final_seconds |-> 0,
     g_flash_start_time |-> 0,
     brew_timer |-> [paused |-> TRUE, period |-> 50, last_run |-> 0],
     g_gpio_simulation_active |-> FALSE, g_last_gpio_state |-> TRUE,
     g_allow_update_from_gpio |-> FALSE,
     sec_label |-> <<>>, sec_hidden |-> TRUE,
     g_alarm_active |-> FALSE]

boiler_display_get_current_time_ms(ms) == DisplayEpoch + ms

brewing_display_is_active(d) == d.g_state = "ACTIVE"

water_alarm_is_active(d) == d.g_alarm_active

\* lv_timer_resume and lv_timer_pause with the flag the module keeps
TimerResumed(t) == [t EXCEPT !.paused = FALSE]
TimerPaused(t) == [t EXCEPT !.paused = TRUE]

calculate_remaining_seconds(ready_start_time, now_ms) ==
    TruncDiv(ready_start_time - now_ms, 1000)

\* the arc and the label of a gauge are shown unless brewing or the alarm
\* is active, and take a value and a text
Gauge(d, b, arc_value, label) ==
    [b EXCEPT !.arc_hidden = brewing_display_is_active(d) \/ water_alarm_is_active(d),
              !.label_hidden = brewing_display_is_active(d) \/ water_alarm_is_active(d),
              !.arc_value = arc_value,
              !.label = label]

LabelText(remaining_seconds) ==
    IF remaining_seconds > 60 THEN <<(remaining_seconds + 59) \div 60, "min">>
    ELSE IF remaining_seconds > 0 THEN <<remaining_seconds, "sec">>
    ELSE <<"READY">>

ArcValue(remaining_seconds) ==
    IF (remaining_seconds * 100) \div WARMUP_DURATION_SEC > 100 THEN 100
    ELSE IF remaining_seconds < 0 THEN 0
    ELSE (remaining_seconds * 100) \div WARMUP_DURATION_SEC

update_arc_and_label(d, i, remaining_seconds, got) ==
    [d EXCEPT !.boilers[i] =
        IF got
        THEN Gauge(d, @, ArcValue(remaining_seconds), LabelText(remaining_seconds))
        ELSE @]

set_boiler_off(d, i, got) ==
    [d EXCEPT !.boilers[i] =
        IF got
        THEN Gauge(d, [@ EXCEPT !.state = "OFF", !.ready_start_time = 0],
                   0, <<"OFF">>)
        ELSE [@ EXCEPT !.state = "OFF", !.ready_start_time = 0]]

set_boiler_heating(d, i, ready_start_time, now_ms, got) ==
    [update_arc_and_label(
        [d EXCEPT !.boilers[i] = [@ EXCEPT !.state = "HEATING",
                                           !.ready_start_time = ready_start_time]],
        i, calculate_remaining_seconds(ready_start_time, now_ms), got)
     EXCEPT !.timer = TimerResumed(@)]

set_boiler_ready_no_mutex(d, i) ==
    [d EXCEPT !.boilers[i] =
        Gauge(d, [@ EXCEPT !.state = "READY"], 100, <<"READY">>)]

set_boiler_ready(d, i, got) ==
    IF got THEN set_boiler_ready_no_mutex(d, i) ELSE d

NeedsFastUpdate(d, now_ms) ==
    \E i \in DOMAIN d.boilers :
        /\ d.boilers[i].state = "HEATING"
        /\ calculate_remaining_seconds(d.boilers[i].ready_start_time, now_ms) > 0
        /\ calculate_remaining_seconds(d.boilers[i].ready_start_time, now_ms) < 60

AnyActive(d) == \E i \in DOMAIN d.boilers : d.boilers[i].state # "OFF"

restart_update_timer(d, now_ms) ==
    [d EXCEPT !.timer =
        [@ EXCEPT !.period = IF NeedsFastUpdate(d, now_ms) THEN 1000 ELSE 30000,
                  !.paused = ~AnyActive(d)]]

\* a change to READY asked for by boiler_display_update
BecomeReady(d, i, now_ms, got) ==
    IF d.boilers[i].state # "READY"
    THEN restart_update_timer(set_boiler_ready(d, i, got), now_ms)
    ELSE set_boiler_ready(d, i, got)

BecomeOff(d, i, now_ms, got) ==
    IF d.boilers[i].state # "OFF"
    THEN restart_update_timer(set_boiler_off(d, i, got), now_ms)
    ELSE d

\* the variant that looks at the machine's status and the time only
boiler_display_update_byMachine(d, type, machine_status, boiler_status, ready_start_time, now_ms, got) ==
    IF type \notin DOMAIN d.boilers THEN d
    ELSE IF machine_status \in {"Off", "StandBy"} THEN BecomeOff(d, type, now_ms, got)
    ELSE IF ready_start_time <= 0 THEN BecomeReady(d, type, now_ms, got)
    ELSE IF calculate_remaining_seconds(ready_start_time, now_ms) <= 0
         THEN BecomeReady(d, type, now_ms, got)
    ELSE IF \/ d.boilers[type].state # "HEATING"
            \/ d.boilers[type].ready_start_time # ready_start_time
         THEN restart_update_timer(
                  set_boiler_heating(d, type, ready_start_time, now_ms, got), now_ms)
    ELSE update_arc_and_label(d, type,
             calculate_remaining_seconds(ready_start_time, now_ms), got)

boiler_display_update(d, type, machine_status, boiler_status, ready_start_time, now_ms, got) ==
    IF type \notin DOMAIN d.boilers THEN d
    ELSE IF machine_status \in {"Off", "StandBy"} THEN BecomeOff(d, type, now_ms, got)
    ELSE IF boiler_status \in {"Off", "StandBy"} THEN BecomeOff(d, type, now_ms, got)
    ELSE IF boiler_status = "Ready" THEN BecomeReady(d, type, now_ms, got)
    ELSE IF ready_start_time <= 0 THEN BecomeReady(d, type, now_ms, got)
    ELSE IF calculate_remaining_seconds(ready_start_time, now_ms) <= 0
         THEN BecomeReady(d, type, now_ms, got)
    ELSE IF \/ d.boilers[type].state # "HEATING"
            \/ d.boilers[type].ready_start_time # ready_start_time
         THEN restart_update_timer(
                  set_boiler_heating(d, type, ready_start_time, now_ms, got), now_ms)
    ELSE update_arc_and_label(d, type,
             calculate_remaining_seconds(ready_start_time, now_ms), got)

\* one pass of the callback's loop over a boiler.  The callback runs inside
\* lv_timer_handler(), where Task_LVGL holds the GUI mutex: the take in
\* update_arc_and_label waits for the mutex its own task holds and times out
CallbackBoiler(d, i, now_ms) ==
    IF d.boilers[i].state = "HEATING"
    THEN IF calculate_remaining_seconds(d.boilers[i].ready_start_time, now_ms) <= 0
         THEN set_boiler_ready_no_mutex(d, i)
         ELSE update_arc_and_label(d, i,
                  calculate_remaining_seconds(d.boilers[i].ready_start_time, now_ms),
                  FALSE)
    ELSE IF d.boilers[i].state = "READY" THEN set_boiler_ready_no_mutex(d, i)
    ELSE d

CallbackTimer(d, any_heating, now_ms) ==
    IF any_heating THEN restart_update_timer(d, now_ms)
    ELSE IF \E i \in DOMAIN d.boilers : d.boilers[i].state = "READY"
         THEN [d EXCEPT !.timer = [@ EXCEPT !.period = 5000, !.paused = FALSE]]
    ELSE [d EXCEPT !.timer = TimerPaused(@)]

boiler_display_timer_callback(d, now_ms) ==
    CallbackTimer(
        CallbackBoiler(CallbackBoiler(d, BOILER_COFFEE, now_ms), BOILER_STEAM, now_ms),
        \E i \in DOMAIN d.boilers :
            /\ d.boilers[i].state = "HEATING"
            /\ calculate_remaining_seconds(d.boilers[i].ready_start_time, now_ms) > 0,
        now_ms)

(***************************************************************************)
(* The brewing timer display.                                              *)
(***************************************************************************)
brewing_display_get_current_time_ms(ms) == DisplayEpoch + ms

\* the arcs and the labels of both boilers
BoilerElementsHidden(d, hidden) ==
    [d EXCEPT !.boilers = [i \in DOMAIN @ |->
                              [@[i] EXCEPT !.arc_hidden = hidden,
                                           !.label_hidden = hidden]]]

show_brewing_ui(d, got) ==
    IF got
    THEN [BoilerElementsHidden(d, TRUE) EXCEPT
             !.sec_hidden = FALSE,
             !.sec_label = <<0, 0>>]
    ELSE d

restore_normal_ui_no_mutex(d) ==
    IF ~water_alarm_is_active(d)
    THEN [BoilerElementsHidden(d, FALSE) EXCEPT !.sec_hidden = TRUE]
    ELSE [d EXCEPT !.sec_hidden = TRUE]

restore_normal_ui(d, got) ==
    IF got THEN restore_normal_ui_no_mutex(d) ELSE d

start_brewing(d, start_time, got) ==
    IF d.g_state = "ACTIVE"
    THEN [d EXCEPT !.g_brewing_start_time = start_time]
    ELSE [show_brewing_ui([d EXCEPT !.g_state = "ACTIVE",
                                    !.g_brewing_start_time = start_time,
                                    !.g_final_seconds = 0], got)
          EXCEPT !.brew_timer = [@ EXCEPT !.period = 50, !.paused = FALSE]]

\* the whole seconds brewed when brewing stops
FinalSeconds(d, now_ms) ==
    IF d.g_brewing_start_time > 0 /\ now_ms - d.g_brewing_start_time > 0
    THEN (now_ms - d.g_brewing_start_time) \div 1000
    ELSE 0

stop_brewing(d, now_ms, ms, got) ==
    IF d.g_state = "IDLE" THEN d
    ELSE [d EXCEPT !.g_final_seconds = FinalSeconds(d, now_ms),
                   !.g_state = "FLASHING",
                   !.g_flash_start_time = ms,
                   !.g_brewing_start_time = 0,
                   !.sec_label = IF got THEN <<FinalSeconds(d, now_ms)>> ELSE @,
                   !.sec_hidden = IF got THEN FALSE ELSE @,
                   !.brew_timer = [@ EXCEPT !.period = 50, !.paused = FALSE]]

\* the variant that takes every update, whoever sends it
brewing_display_update_open(d, is_brewing, brewing_start_time, now_ms, ms, got) ==
    IF is_brewing
    THEN start_brewing([d EXCEPT !.g_allow_update_from_gpio = FALSE],
                       IF brewing_start_time <= 0 THEN now_ms ELSE brewing_start_time,
                       got)
    ELSE stop_brewing([d EXCEPT !.g_allow_update_from_gpio = FALSE], now_ms, ms, got)

brewing_display_update(d, is_brewing, brewing_start_time, now_ms, ms, got) ==
    IF d.g_gpio_simulation_active /\ ~d.g_allow_update_from_gpio THEN d
    ELSE IF is_brewing
    THEN start_brewing([d EXCEPT !.g_allow_update_from_gpio = FALSE],
                       IF brewing_start_time <= 0 THEN now_ms ELSE brewing_start_time,
                       got)
    ELSE stop_brewing([d EXCEPT !.g_allow_update_from_gpio = FALSE], now_ms, ms, got)

\* the text "S.T" is the pair of its two numbers
update_elapsed_time_display(d, now_ms) ==
    IF d.g_brewing_start_time <= 0 THEN d
    ELSE IF now_ms - d.g_brewing_start_time < 0 THEN [d EXCEPT !.sec_label = <<0, 0>>]
    ELSE [d EXCEPT !.sec_label =
             <<(now_ms - d.g_brewing_start_time) \div 1000,
               ((now_ms - d.g_brewing_start_time) % 1000) \div 100>>]

brewing_display_timer_callback(d, now_ms, ms) ==
    IF d.g_state = "ACTIVE" THEN update_elapsed_time_display(d, now_ms)
    ELSE IF d.g_state = "FLASHING"
    THEN IF ms - d.g_flash_start_time >= FLASH_DURATION_MS
         THEN [restore_normal_ui_no_mutex([d EXCEPT !.g_state = "IDLE",
                                                    !.g_final_seconds = 0])
               EXCEPT !.brew_timer = TimerPaused(@)]
         ELSE [d EXCEPT !.sec_hidden =
                  ((ms - d.g_flash_start_time) \div FLASH_TOGGLE_MS) % 2 # 0]
    ELSE d

\* what the simulation does when the pin has changed
GpioChanged(d, current_gpio_state, now_ms, ms, got) ==
    IF ~current_gpio_state
    THEN IF ~d.g_gpio_simulation_active
         THEN brewing_display_update(
                  [d EXCEPT !.g_gpio_simulation_active = TRUE,
                            !.g_allow_update_from_gpio = TRUE],
                  TRUE, now_ms, now_ms, ms, got)
         ELSE d
    ELSE IF d.g_gpio_simulation_active
    THEN IF d.g_state = "FLASHING"
         THEN restore_normal_ui([d EXCEPT !.g_gpio_simulation_active = FALSE,
                                          !.g_state = "IDLE",
                                          !.g_final_seconds = 0,
                                          !.brew_timer = TimerPaused(@)], got)
         ELSE IF d.g_state = "ACTIVE"
         THEN brewing_display_update(
                  [d EXCEPT !.g_gpio_simulation_active = FALSE,
                            !.g_allow_update_from_gpio = TRUE],
                  FALSE, 0, now_ms, ms, got)
         ELSE [d EXCEPT !.g_gpio_simulation_active = FALSE]
    ELSE d

\* the simulation keeps brewing mode on while the pin is held low
GpioHeld(d, now_ms, ms, got) ==
    IF d.g_gpio_simulation_active /\ d.g_state \notin {"ACTIVE", "FLASHING"}
    THEN brewing_display_update([d EXCEPT !.g_allow_update_from_gpio = TRUE],
                                TRUE, now_ms, now_ms, ms, got)
    ELSE d

brewing_display_check_gpio_simulation(d, current_gpio_state, now_ms, ms, got) ==
    IF current_gpio_state # d.g_last_gpio_state
    THEN GpioHeld(GpioChanged([d EXCEPT !.g_last_gpio_state = current_gpio_state],
                              current_gpio_state, now_ms, ms, got),
                  now_ms, ms, got)
    ELSE GpioHeld(d, now_ms, ms, got)

(***************************************************************************)
(* The water alarm.                                                        *)
(***************************************************************************)
water_alarm_set(d, alarm_active, got) ==
    IF d.g_alarm_active = alarm_active THEN d
    ELSE IF ~got THEN [d EXCEPT !.g_alarm_active = alarm_active]
    ELSE IF alarm_active
    THEN BoilerElementsHidden([d EXCEPT !.g_alarm_active = TRUE], TRUE)
    ELSE IF ~brewing_display_is_active(d)
    THEN BoilerElementsHidden([d EXCEPT !.g_alarm_active = FALSE], FALSE)
    ELSE [d EXCEPT !.g_alarm_active = FALSE]


\* no computation of a pure function is in hand
(***************************************************************************)
(* The owner's view of the machine's power: the telemetry handler and the  *)
(* power commands.  A message is the record of what its widgets report; a  *)
(* status is "none" when the message lacks the widget.  The handler's mark *)
(* for the activity monitor is not part of the state.  One outcome, got,   *)
(* stands for every take of the display mutex made within one call.        *)
(***************************************************************************)
\* LaMarzoccoMachine::_websocket_message_handler, for a message that parses
_websocket_message_handler(m, d, msg, ms, got) ==
    LET machine_status == msg.machine_status
        is_brewing == machine_status = "Brewing"
        brewing_start_time == IF is_brewing THEN msg.brewingStartTime ELSE 0
        m1 == IF machine_status # "none"
              THEN [m EXCEPT !.power_state = (machine_status = "PoweredOn")]
              ELSE m
        m2 == IF msg.steam_boiler_status # "none"
              THEN [m1 EXCEPT !.steam_state =
                        msg.steam_boiler_status \notin {"Off", "StandBy"}]
              ELSE m1
        no_water_alarm == \/ msg.allarm
                          \/ msg.coffee_boiler_status = "NoWater"
                          \/ msg.steam_boiler_status = "NoWater"
        off == machine_status \in {"Off", "StandBy"}
        d1 == water_alarm_set(d, no_water_alarm, got)
        d2 == brewing_display_update(d1, is_brewing, brewing_start_time,
                  brewing_display_get_current_time_ms(ms), ms, got)
        d3 == IF machine_status # "none" /\ (off \/ msg.coffee_boiler_status # "none")
              THEN boiler_display_update(d2, BOILER_COFFEE, machine_status,
                       IF msg.coffee_boiler_status = "none" THEN "Off"
                       ELSE msg.coffee_boiler_status,
                       msg.coffee_ready_time,
                       boiler_display_get_current_time_ms(ms), got)
              ELSE d2
        d4 == IF machine_status # "none" /\ (off \/ msg.steam_boiler_status # "none")
              THEN boiler_display_update(d3, BOILER_STEAM, machine_status,
                       IF msg.steam_boiler_status = "none" THEN "Off"
                       ELSE msg.steam_boiler_status,
                       msg.steam_ready_time,
                       boiler_display_get_current_time_ms(ms), got)
              ELSE d3
    IN [machine |-> m2, display |-> d4]

\* LaMarzoccoMachine::get_power_state
get_power_state(m) == m.power_state

\* LaMarzoccoMachine::set_power.  The mode of the request body is noted in
\* the trace of calls, after the name of the function.
set_power(w, enabled, net, signOk, code) ==
    LET w0 == Called(Called(w, "set_power"),
                     IF enabled THEN "BrewingMode" ELSE "StandBy")
        w1 == api_call(w0, "POST", net, signOk, code)
    IN IF get_serial_number(w) = <<>> THEN Return(Called(w, "set_power"), FALSE)
       ELSE IF w1.ret THEN [w1 EXCEPT !.machine.power_state = enabled]
       ELSE w1

\* LaMarzoccoMachine::toggle_power
toggle_power(w, net, signOk, code) ==
    set_power(Called(w, "toggle_power"), ~get_power_state(w.machine), net, signOk, code)

NoCalc == [stage |-> "none"]

InitCommon ==
    /\ millis = 0
    /\ synced = FALSE
    /\ ws = InitWs
    /\ machine = InitMachine
    /\ ids = [uuid |-> 0, tok |-> 0]
    /\ obs = ObsOf(World, "init", NoStep)
    /\ hist = InitHist
    /\ wifi = InitWifi
    /\ display = InitDisplay
    /\ calc = NoCalc

\* the client is initialized when the store holds an identity, the one the
\* signed headers name
InitPrefs == prefs = IF client.initialized THEN SavedStore(1) ELSE EmptyStore

Init ==
    /\ client \in {InitClient(b) : b \in BOOLEAN}
    /\ InitPrefs
    /\ InitCommon

(***************************************************************************)
(* The environment: time passes, and network time becomes known.           *)
(***************************************************************************)
Tick ==
    /\ millis < MaxTicks * TickMs
    /\ millis' = millis + TickMs
    /\ obs' = ObsOf(World, "tick", NoStep)
    /\ UNCHANGED <<synced, client, ws, machine, ids, prefs, hist, calc, wifi, display>>

TimeSync ==
    /\ ~synced
    /\ synced' = TRUE
    /\ obs' = ObsOf(World, "sync", NoStep)
    /\ UNCHANGED <<millis, client, ws, machine, ids, prefs, hist, calc, wifi, display>>

(***************************************************************************)
(* The channel under its public interface: connect(), disconnect() and     *)
(* loop() in any order, and api_call() on the client it shares.            *)
(***************************************************************************)
Connect ==
    \E net \in NetFor(World, PlainNetChoices), signOk \in BOOLEAN :
        LET w == connect(World, <<SerialNo>>, net, signOk)
        IN ~w.ovf /\ Commit(w, "connect", NoStep)

Disconnect ==
    LET w == disconnect(World)
    IN Commit(w, "disconnect", NoStep)

Loop ==
    \E step \in LibSteps(World) :
        LET w == loop(World, step)
        IN ~w.ovf /\ Commit(w, "loop", step)

Next == Tick \/ Connect \/ Disconnect \/ Loop

Spec == Init /\ [][Next]_vars

(***************************************************************************)
(* The client alone: get_access_token() and api_call() as time passes and  *)
(* network time becomes known.                                             *)
(***************************************************************************)
GetAccessToken ==
    \E net \in NetFor(World, NetChoices) :
        LET w == get_access_token(World, net)
        IN ~w.ovf /\ Commit(w, "get_access_token", NoStep)

\* the method asked for and the status the service answers
ApiChoices ==
    {<<"POST", 200>>, <<"GET", 299>>, <<"PUT", 300>>, <<"DELETE", 404>>,
     <<"PATCH", 200>>}

\* the step's input: the method api_call() is given
ApiStep(method) == [type |-> method, payload |-> <<>>, txOk |-> TRUE]

ApiCall ==
    \E net \in NetFor(World, NetChoices), signOk \in BOOLEAN, c \in ApiChoices :
        LET w == api_call(World, c[1], net, signOk, c[2])
        IN ~w.ovf /\ Commit(w, "api_call", ApiStep(c[1]))

ClientNext == Tick \/ TimeSync \/ GetAccessToken \/ ApiCall

ClientSpec == Init /\ [][ClientNext]_vars

(***************************************************************************)
(* The firmware: setup() signs in, constructs the channel and its owner    *)
(* and connects; loop() then runs LaMarzoccoMachine::loop for ever.        *)
(***************************************************************************)
IdleStep == [type |-> "idle", payload |-> <<>>, txOk |-> TRUE]

\* setup(), from the first get_access_token() on
setup(w, net1, net2, signOk) ==
    LET w1 == get_access_token(Called(w, "setup"), net1)
        w2 == [w1 EXCEPT !.machine.started = TRUE]
    IN IF ~w1.ret THEN [w1 EXCEPT !.machine.booted = TRUE]
       ELSE connect_websocket([w2 EXCEPT !.machine.booted = TRUE], net2, signOk)

Setup ==
    /\ ~machine.booted
    /\ \E net1 \in PlainNetChoices, net2 \in PlainNetChoices, signOk \in BOOLEAN :
          LET w == setup(World, net1, net2, signOk)
          IN ~w.ovf /\ Commit(w, "setup", NoStep)

\* whether LaMarzoccoMachine::loop goes on to call connect_websocket()
Reconnects(w, step) ==
    LET w1 == loop(w, step)
    IN ~is_websocket_connected(w1)
       /\ w.millis - w.machine.last_reconnect_attempt >= RECONNECT_INTERVAL_MS

\* the inputs a call of LaMarzoccoMachine::loop can meet
LoopInputs(w, step) ==
    IF Reconnects(w, step)
    THEN NetFor(w, PlainNetChoices) \X BOOLEAN
    ELSE {<<n, TRUE>> : n \in NetFor([w EXCEPT !.client.initialized = FALSE],
                                     PlainNetChoices)}

\* the run stops short of drawing more UUIDs or tokens than the bounds
MachineLoop ==
    /\ machine.started
    /\ \E step \in LibSteps(World) \cup {IdleStep} :
          \E in \in LoopInputs(World, step) :
              LET w == machine_loop(World, step, in[1], in[2])
              IN ~w.ovf /\ Commit(w, "machine_loop", step)

OwnerTick ==
    /\ millis < MaxOwnerTicks * TickMs
    /\ millis' = millis + TickMs
    /\ obs' = ObsOf(World, "tick", NoStep)
    /\ UNCHANGED <<synced, client, ws, machine, ids, prefs, hist, calc, wifi, display>>

OwnerInit ==
    /\ client = InitClient(TRUE)
    /\ InitPrefs
    /\ InitCommon

OwnerNext == Setup \/ MachineLoop \/ OwnerTick

OwnerSpec == OwnerInit /\ [][OwnerNext]_vars

\* ENABLED <<MachineLoop>>_vars, written out as a state predicate
MachineLoopEnabled ==
    /\ machine.started
    /\ \E step \in LibSteps(World) \cup {IdleStep} :
          \E in \in LoopInputs(World, step) :
              LET w == machine_loop(World, step, in[1], in[2])
              IN /\ ~w.ovf
                 /\ <<w.client, w.ws, w.machine, w.ids,
                      ObsOf(w, "machine_loop", step),
                      HistAfter(w, "machine_loop", step)>>
                        # <<client, ws, machine, ids, obs, hist>>

\* the Arduino core calls loop() again and again, and time passes: weak
\* fairness of OwnerTick and of MachineLoop, the latter with its ENABLED
\* written out
FairOwnerSpec ==
    /\ OwnerInit
    /\ [][OwnerNext]_vars
    /\ WF_vars(OwnerTick)
    /\ \/ []<>(~MachineLoopEnabled)
       \/ []<><<MachineLoop>>_vars

(***************************************************************************)
(* The installation identity over the life of the device: boots, where     *)
(* setup() makes sure of an identity and constructs the client, and the    *)
(* configuration portal's saves.                                           *)
(***************************************************************************)
\* a faulty variant: an identity is made without asking for the stored one
saveMachineHandler_regenerates(w, machine_arg, genOk) ==
    LET w0 == Called([w EXCEPT !.prefs.MACHINE = machine_arg], "saveMachineHandler")
        w1 == generate_uuid(w0)
        made == generate_installation_key(w1.ids.uuid, genOk)
        w2 == Called(w1, "generate_installation_key")
    IN IF made.ok
       THEN Called([w2 EXCEPT !.prefs = save_installation_key(@, made.key)],
                   "save_installation_key")
       ELSE w2

\* setup(), from the WiFi connection to LaMarzoccoClient::init.  RAM starts
\* afresh; online says that WiFi credentials are stored and the connection
\* came up.  Without it, or without cloud credentials, no client is
\* constructed, and the model then holds a client that is not initialized.
setup_client(w, online, genOk) ==
    LET w0 == Called([w EXCEPT !.client = InitClient(FALSE), !.ws = InitWs,
                               !.machine = InitMachine], "setup")
        loaded == load_installation_key(w0.prefs, NoKey)
        cleared == [w0.prefs EXCEPT !.INST_ID = 0, !.INST_SECRET = Absent,
                                    !.INST_PRIVKEY = Absent,
                                    !.INST_PUBKEY = Absent,
                                    !.INST_PRIVLEN = 0, !.INST_PUBLEN = 0]
        w1 == generate_uuid([w0 EXCEPT !.prefs = cleared])
        made == generate_installation_key(w1.ids.uuid, genOk)
        w2 == Called(w1, "generate_installation_key")
        w3 == IF loaded.ok THEN w0
              ELSE IF made.ok
              THEN Called([w2 EXCEPT !.prefs = save_installation_key(@, made.key)],
                          "save_installation_key")
              ELSE w2
    IN IF online /\ w0.prefs.USER /\ w0.prefs.MACHINE
       THEN init(w3, <<SerialNo>>)
       ELSE Return(w0, FALSE)

\* saveMachineHandler(); machine_arg says that the form's field is not empty
saveMachineHandler(w, machine_arg, genOk) ==
    LET w0 == Called([w EXCEPT !.prefs.MACHINE = machine_arg], "saveMachineHandler")
        loaded == load_installation_key(w0.prefs, NoKey)
        w1 == generate_uuid(w0)
        made == generate_installation_key(w1.ids.uuid, genOk)
        w2 == Called(w1, "generate_installation_key")
    IN IF loaded.ok THEN w0
       ELSE IF made.ok
       THEN Called([w2 EXCEPT !.prefs = save_installation_key(@, made.key)],
                   "save_installation_key")
       ELSE w2

\* saveCloudHandler(); user_arg says that neither field of the form is empty
saveCloudHandler(w, user_arg) ==
    Called([w EXCEPT !.prefs.USER = user_arg], "saveCloudHandler")

\* what the store of a device may hold of an identity when the run starts:
\* every entry present or not, the secret of the right length or not, the
\* keys empty or as long as the buffers save_installation_key writes from
KeyStores ==
    {[USER |-> u, MACHINE |-> u, INST_ID |-> id,
      INST_SECRET |-> sec, INST_PRIVKEY |-> prv, INST_PUBKEY |-> pub,
      INST_PRIVLEN |-> getBytes(prv, PrivateKeyDerSize),
      INST_PUBLEN |-> getBytes(pub, PublicKeyDerSize)] :
        u \in BOOLEAN, id \in {0, 1},
        sec \in {Absent, Blob(SecretLen \div 2, 1), Blob(SecretLen, 1),
                 Blob(SecretLen + 1, 1)},
        prv \in {Absent, Blob(0, 1), Blob(PrivateKeyDerSize, 1)},
        pub \in {Absent, Blob(0, 1), Blob(PublicKeyDerSize, 1)}}

\* the device before a boot: nothing constructed, the UUID 1 already drawn
KeyInit ==
    /\ client = InitClient(FALSE)
    /\ prefs \in KeyStores
    /\ millis = 0
    /\ synced = FALSE
    /\ ws = InitWs
    /\ machine = InitMachine
    /\ ids = [uuid |-> 1, tok |-> 0]
    /\ obs = ObsOf(World, "init", NoStep)
    /\ hist = InitHist
    /\ wifi = InitWifi
    /\ display = InitDisplay
    /\ calc = NoCalc

Boot ==
    \E online \in BOOLEAN, genOk \in BOOLEAN :
        LET w == setup_client(World, online, genOk)
        IN ~w.ovf /\ Commit(w, "setup", NoStep)

SaveMachine ==
    \E machine_arg \in BOOLEAN, genOk \in BOOLEAN :
        LET w == saveMachineHandler(World, machine_arg, genOk)
        IN ~w.ovf /\ Commit(w, "saveMachineHandler", NoStep)

SaveCloud ==
    \E user_arg \in BOOLEAN :
        LET w == saveCloudHandler(World, user_arg)
        IN Commit(w, "saveCloudHandler", NoStep)

KeyNext == Boot \/ SaveMachine \/ SaveCloud

KeySpec == KeyInit /\ [][KeyNext]_vars

(***************************************************************************)
(* The pure functions, each applied to inputs drawn at the start.  The     *)
(* device stays as constructed; calc holds the inputs, the stage of the    *)
(* computation and its results.                                            *)
(***************************************************************************)
Constructed ==
    /\ client = InitClient(FALSE)
    /\ InitPrefs
    /\ millis = 0
    /\ synced = FALSE
    /\ ws = InitWs
    /\ machine = InitMachine
    /\ ids = [uuid |-> 0, tok |-> 0]
    /\ obs = ObsOf(World, "init", NoStep)
    /\ hist = InitHist
    /\ wifi = InitWifi
    /\ display = InitDisplay

device == <<millis, synced, client, ws, machine, ids, prefs, obs, hist, wifi, display>>

\* what the output parameters of a decoder call hold before the call
Stale == <<"stale">>

CodecCommands == {<<>>, <<"SEND">>, <<"A", SP, "B">>, <<"SEND", SP>>}

CodecHeaders ==
    {<<>>, <<"a:1">>, <<"a:1", LF>>, <<"a:1", LF, "b:2">>, <<"a:1", LF, "b:2", LF>>,
     <<LF>>, <<"a:1", LF, LF>>, <<"a:1", LF, LF, "b:2">>}

CodecBodies == {<<>>, <<"{}">>, <<LF, "x">>, <<"x", LF, LF, "y">>, <<"x", NUL, "y">>}

CodecInit ==
    /\ Constructed
    /\ calc \in {[stage |-> "in", command |-> c, headers |-> h, body |-> b] :
                    c \in CodecCommands, h \in CodecHeaders, b \in CodecBodies}

Encode ==
    /\ calc.stage = "in"
    /\ calc' = [stage |-> "encoded", command |-> calc.command,
                headers |-> calc.headers, body |-> calc.body,
                frame |-> _encode_stomp_message(calc.command, calc.headers, calc.body)]
    /\ UNCHANGED device

Decode ==
    /\ calc.stage = "encoded"
    /\ calc' = [stage |-> "decoded", command |-> calc.command,
                headers |-> calc.headers, body |-> calc.body, frame |-> calc.frame,
                out |-> _decode_stomp_message(calc.frame, Stale, Stale, Stale)]
    /\ UNCHANGED device

CodecNext == Encode \/ Decode

CodecSpec == CodecInit /\ [][CodecNext]_vars

(***************************************************************************)
(* Bytes and the bit operators of C on them.  Operands are non-negative    *)
(* and stay far below 2^31, so the promotion to int loses nothing.         *)
(***************************************************************************)
Byte == 0..255

RECURSIVE BitAnd(_, _)
BitAnd(a, b) ==
    IF a = 0 \/ b = 0 THEN 0
    ELSE (a % 2) * (b % 2) + 2 * BitAnd(a \div 2, b \div 2)

RECURSIVE BitOr(_, _)
BitOr(a, b) ==
    IF a = 0 THEN b
    ELSE IF b = 0 THEN a
    ELSE (IF a % 2 = 1 \/ b % 2 = 1 THEN 1 ELSE 0) + 2 * BitOr(a \div 2, b \div 2)

RECURSIVE BitXor(_, _)
BitXor(a, b) ==
    IF a = 0 THEN b
    ELSE IF b = 0 THEN a
    ELSE (((a % 2) + (b % 2)) % 2) + 2 * BitXor(a \div 2, b \div 2)

Shl(a, n) == a * 2^n

Shr(a, n) == a \div 2^n

\* the conversion to uint8_t
U8(a) == a % 256

(***************************************************************************)
(* The WiFi monitor as loop() runs it: time passes, and checkWiFiConnection *)
(* is called and finds WiFi up or down.                                    *)
(***************************************************************************)
WifiTickMs == 5000
MaxWifiTicks == 42

WifiTick ==
    /\ millis < MaxWifiTicks * WifiTickMs
    /\ millis' = millis + WifiTickMs
    /\ UNCHANGED <<synced, client, ws, machine, ids, prefs, obs, hist, calc, wifi, display>>

\* what the observer holds after a call that has left the statics s
EpisodeAfter(e, s, now) ==
    [active |-> e.active,
     attempts |-> e.attempts + (IF s.did.reconnect THEN 1 ELSE 0),
     lastAttemptAt |-> IF s.did.reconnect THEN now ELSE e.lastAttemptAt,
     lastTimeoutAt |-> IF s.did.timeout THEN now ELSE e.lastTimeoutAt,
     failed |-> e.failed \/ s.did.screen]

\* the episode a call belongs to: none while WiFi is up, a new one when WiFi
\* is found down after the last call found it up
EpisodeAt(isConnected) ==
    IF isConnected THEN NoEpisode
    ELSE IF wifi.seen THEN [NoEpisode EXCEPT !.active = TRUE]
    ELSE wifi.episode

CheckWiFi ==
    /\ \E isConnected \in BOOLEAN :
          wifi' = [checkWiFiConnection(wifi, millis, isConnected) EXCEPT
                      !.seen = isConnected,
                      !.episode = EpisodeAfter(EpisodeAt(isConnected),
                                      checkWiFiConnection(wifi, millis, isConnected),
                                      millis)]
    /\ UNCHANGED <<millis, synced, client, ws, machine, ids, prefs, obs, hist, calc, display>>

WifiInit == Constructed /\ calc = NoCalc

WifiNext == WifiTick \/ CheckWiFi

WifiSpec == WifiInit /\ [][WifiNext]_vars

(***************************************************************************)
(* The display at work.  The main loop hands it telemetry and the state of *)
(* the simulation pin; the LVGL task runs the two timers when they are     *)
(* due, and time passes only when no timer is due.                         *)
(***************************************************************************)
DisplayTickMs == 3000
MaxDisplayTicks == 1

MachineStatuses == {"StandBy", "PoweredOn"}
BoilerStatuses == {"StandBy", "HeatingUp", "Ready"}
ReadyTimes == {0, DisplayEpoch + 500, DisplayEpoch + 62000}
BrewTimes == {DisplayEpoch - 1500}

others == <<synced, client, ws, machine, ids, prefs, obs, hist, calc, wifi>>

\* lv_timer_handler() runs a timer that is not paused once its period has
\* passed since it last ran
TimerDue(t, ms) == ~t.paused /\ ms - t.last_run >= t.period

DisplayTick ==
    /\ millis < MaxDisplayTicks * DisplayTickMs
    /\ ~TimerDue(display.timer, millis)
    /\ ~TimerDue(display.brew_timer, millis)
    /\ millis' = millis + DisplayTickMs
    /\ UNCHANGED <<display, others>>

BoilerUpdate ==
    /\ display' \in
          {boiler_display_update(display, type, machine_status, boiler_status,
               ready_start_time, boiler_display_get_current_time_ms(millis), got) :
           type \in {BOILER_COFFEE, BOILER_STEAM}, machine_status \in MachineStatuses,
           boiler_status \in BoilerStatuses, ready_start_time \in ReadyTimes,
           got \in BOOLEAN}
    /\ UNCHANGED <<millis, others>>

BoilerTimer ==
    /\ TimerDue(display.timer, millis)
    /\ display' = [boiler_display_timer_callback(display,
                       boiler_display_get_current_time_ms(millis))
                   EXCEPT !.timer.last_run = millis]
    /\ UNCHANGED <<millis, others>>

BrewingUpdate ==
    /\ display' \in
          {brewing_display_update(display, is_brewing,
               IF is_brewing THEN brewing_start_time ELSE 0,
               brewing_display_get_current_time_ms(millis), millis, got) :
           is_brewing \in BOOLEAN, brewing_start_time \in BrewTimes, got \in BOOLEAN}
    /\ UNCHANGED <<millis, others>>

BrewingTimer ==
    /\ TimerDue(display.brew_timer, millis)
    /\ display' = [brewing_display_timer_callback(display,
                       brewing_display_get_current_time_ms(millis), millis)
                   EXCEPT !.brew_timer.last_run = millis]
    /\ UNCHANGED <<millis, others>>

CheckGpio ==
    /\ display' \in
          {brewing_display_check_gpio_simulation(display, current_gpio_state,
               brewing_display_get_current_time_ms(millis), millis, got) :
           current_gpio_state \in BOOLEAN, got \in BOOLEAN}
    /\ UNCHANGED <<millis, others>>

WaterAlarm ==
    /\ display' \in {water_alarm_set(display, alarm_active, got) :
                        alarm_active \in BOOLEAN, got \in BOOLEAN}
    /\ UNCHANGED <<millis, others>>

DisplayInit == Constructed /\ calc = NoCalc

DisplayNext ==
    \/ DisplayTick
    \/ BoilerUpdate
    \/ BoilerTimer
    \/ BrewingUpdate
    \/ BrewingTimer
    \/ WaterAlarm

DisplaySpec == DisplayInit /\ [][DisplayNext]_vars

BoilerNext == DisplayTick \/ BoilerUpdate \/ BoilerTimer

BoilerSpec == DisplayInit /\ [][BoilerNext]_vars

BrewingNext == DisplayTick \/ BrewingUpdate \/ BrewingTimer \/ CheckGpio

BrewingSpec == DisplayInit /\ [][BrewingNext]_vars

(***************************************************************************)
(* The owner at work on telemetry and on the power button: messages of     *)
(* the dashboard arrive in any order, and the button toggles the power.    *)
(***************************************************************************)
ReportedStatuses == {"none", "Off", "StandBy", "PoweredOn", "Brewing"}

Messages ==
    {[machine_status |-> s, brewingStartTime |-> b, coffee_boiler_status |-> c,
      coffee_ready_time |-> r, steam_boiler_status |-> t, steam_ready_time |-> 0,
      allarm |-> a] :
        s \in ReportedStatuses, b \in BrewTimes, c \in {"HeatingUp"},
        r \in {DisplayEpoch + 62000}, t \in {"none", "NoWater"}, a \in {FALSE}}

\* the step's input: the message the handler is given
MessageStep(msg) ==
    [type |-> "message", payload |-> <<>>, txOk |-> TRUE, msg |-> msg]

TelemetryMessage ==
    \E msg \in Messages, got \in BOOLEAN :
        LET r == _websocket_message_handler(machine, display, msg, millis, got)
        IN /\ machine' = r.machine
           /\ display' = r.display
           /\ obs' = ObsOf(World, "message", MessageStep(msg))
           /\ UNCHANGED <<millis, synced, client, ws, ids, prefs, hist, calc, wifi>>

\* the button, with request signing that works
TogglePower ==
    \E net \in NetFor(World, PlainNetChoices), code \in {200, 500} :
        LET w == toggle_power(World, net, TRUE, code)
        IN ~w.ovf /\ Commit(w, "toggle_power", NoStep)

PowerNext == TelemetryMessage \/ TogglePower

PowerSpec == Init /\ [][PowerNext]_vars


(***************************************************************************)
(* Base64.  An encoded text is a sequence of characters, each a string of  *)
(* length one; NUL is the byte 0 that ends a C string.                     *)
(***************************************************************************)
base64_chars ==
    <<"A", "B", "C", "D", "E", "F", "G", "H", "I", "J", "K", "L", "M",
      "N", "O", "P", "Q", "R", "S", "T", "U", "V", "W", "X", "Y", "Z",
      "a", "b", "c", "d", "e", "f", "g", "h", "i", "j", "k", "l", "m",
      "n", "o", "p", "q", "r", "s", "t", "u", "v", "w", "x", "y", "z",
      "0", "1", "2", "3", "4", "5", "6", "7", "8", "9", "+", "/">>

is_base64(c) == \E i \in 1..64 : base64_chars[i] = c

\* strchr(base64_chars, c) - base64_chars, or 0 where strchr returns NULL;
\* for the byte 0 strchr points at the terminator of the table
AlphabetIndex(c) ==
    IF c = NUL THEN 64
    ELSE IF is_base64(c) THEN (CHOOSE i \in 1..64 : base64_chars[i] = c) - 1
    ELSE 0

\* char_array_4 computed from char_array_3, as characters of the table
Quad(b0, b1, b2) ==
    <<base64_chars[U8(Shr(BitAnd(b0, 252), 2)) + 1],
      base64_chars[U8(Shl(BitAnd(b0, 3), 4) + Shr(BitAnd(b1, 240), 4)) + 1],
      base64_chars[U8(Shl(BitAnd(b1, 15), 2) + Shr(BitAnd(b2, 192), 6)) + 1],
      base64_chars[BitAnd(b2, 63) + 1]>>

\* the part after the loop: i bytes are left in char_array_3, 0 < i < 3
EncodeTail(rest) ==
    IF Len(rest) = 0 THEN <<>>
    ELSE SubSeq(Quad(rest[1], IF Len(rest) > 1 THEN rest[2] ELSE 0, 0), 1, Len(rest) + 1)
             \o [k \in 1..(3 - Len(rest)) |-> "="]

RECURSIVE base64_encode(_)
base64_encode(data) ==
    IF Len(data) < 3 THEN EncodeTail(data)
    ELSE Quad(data[1], data[2], data[3]) \o base64_encode(SubSeq(data, 4, Len(data)))

\* char_array_3 computed from the four table indexes
Triple(c0, c1, c2, c3) ==
    <<U8(Shl(c0, 2) + Shr(BitAnd(c1, 48), 4)),
      U8(Shl(BitAnd(c1, 15), 4) + Shr(BitAnd(c2, 60), 2)),
      U8(Shl(BitAnd(c2, 3), 6) + c3)>>

\* the characters the loop consumes: up to the first '=' or the first
\* character that is not of the table
Consumed(encoded) ==
    SubSeq(encoded, 1,
           FirstOf({k \in 1..Len(encoded) : ~is_base64(encoded[k])}, Len(encoded) + 1) - 1)

\* a faulty variant: as many bytes as characters are taken from the last group
DecodeTail_oneMore(rest) ==
    IF Len(rest) = 0 THEN <<>>
    ELSE SubSeq(Triple(AlphabetIndex(rest[1]),
                       AlphabetIndex(IF Len(rest) > 1 THEN rest[2] ELSE NUL),
                       AlphabetIndex(IF Len(rest) > 2 THEN rest[3] ELSE NUL),
                       AlphabetIndex(NUL)), 1, Len(rest))

\* the part after the loop: i characters are left in char_array_4, 0 < i < 4
DecodeTail(rest) ==
    IF Len(rest) = 0 THEN <<>>
    ELSE SubSeq(Triple(AlphabetIndex(rest[1]),
                       AlphabetIndex(IF Len(rest) > 1 THEN rest[2] ELSE NUL),
                       AlphabetIndex(IF Len(rest) > 2 THEN rest[3] ELSE NUL),
                       AlphabetIndex(NUL)), 1, Len(rest) - 1)

RECURSIVE DecodeGroups(_)
DecodeGroups(chars) ==
    IF Len(chars) < 4 THEN DecodeTail(chars)
    ELSE Triple(AlphabetIndex(chars[1]), AlphabetIndex(chars[2]),
                AlphabetIndex(chars[3]), AlphabetIndex(chars[4]))
             \o DecodeGroups(SubSeq(chars, 5, Len(chars)))

\* ok is the return value, output and output_len what the call has written
base64_decode(encoded) ==
    [ok |-> TRUE,
     output |-> DecodeGroups(Consumed(encoded)),
     output_len |-> Len(DecodeGroups(Consumed(encoded)))]

MaxData == 4

DataBytes == {0, 77, 128, 251, 255}

Base64Init ==
    /\ Constructed
    /\ calc \in {[stage |-> "in", data |-> d] :
                    d \in UNION {[1..n -> DataBytes] : n \in 0..MaxData}}

Base64Encode ==
    /\ calc.stage = "in"
    /\ calc' = [stage |-> "encoded", data |-> calc.data,
                encoded |-> base64_encode(calc.data)]
    /\ UNCHANGED device

Base64Decode ==
    /\ calc.stage = "encoded"
    /\ calc' = [stage |-> "decoded", data |-> calc.data, encoded |-> calc.encoded,
                out |-> base64_decode(calc.encoded)]
    /\ UNCHANGED device

Base64Next == Base64Encode \/ Base64Decode

Base64Spec == Base64Init /\ [][Base64Next]_vars

(***************************************************************************)
(* The text of a UUID, from the 16 bytes esp_fill_random has drawn (a      *)
(* function on 0..15).                                                     *)
(***************************************************************************)
hex_chars ==
    <<"0", "1", "2", "3", "4", "5", "6", "7", "8", "9", "a", "b", "c", "d", "e", "f">>

\* a faulty variant: both variant bits are set
SetVersionAndVariant_bothBits(uuid_bytes) ==
    [uuid_bytes EXCEPT ![6] = BitOr(BitAnd(@, 15), 64),
                       ![8] = BitOr(BitAnd(@, 63), 192)]

\* version 4 and variant 10
SetVersionAndVariant(uuid_bytes) ==
    [uuid_bytes EXCEPT ![6] = BitOr(BitAnd(@, 15), 64),
                       ![8] = BitOr(BitAnd(@, 63), 128)]

\* the loop over the bytes from byte i on
RECURSIVE UuidFrom(_, _)
UuidFrom(uuid_bytes, i) ==
    IF i >= 16 THEN <<>>
    ELSE (IF i \in {4, 6, 8, 10} THEN <<"-">> ELSE <<>>)
             \o <<hex_chars[BitAnd(Shr(uuid_bytes[i], 4), 15) + 1],
                  hex_chars[BitAnd(uuid_bytes[i], 15) + 1]>>
             \o UuidFrom(uuid_bytes, i + 1)

\* generate_uuid for the bytes drawn
UuidText(uuid_bytes) == UuidFrom(SetVersionAndVariant(uuid_bytes), 0)

RandomPatterns ==
    {[i \in 0..15 |-> 0], [i \in 0..15 |-> 255], [i \in 0..15 |-> 17 * i],
     [i \in 0..15 |-> (171 + 29 * i) % 256]}

RandomBytes ==
    {[p EXCEPT ![6] = a, ![8] = b] :
        p \in RandomPatterns, a \in {0, 79, 165, 240, 255},
        b \in {0, 63, 64, 122, 128, 192, 255}}

UuidInit ==
    /\ Constructed
    /\ calc \in {[stage |-> "in", random |-> r] : r \in RandomBytes}

Uuid ==
    /\ calc.stage = "in"
    /\ calc' = [stage |-> "formatted", random |-> calc.random,
                uuid |-> UuidText(calc.random)]
    /\ UNCHANGED device

UuidNext == Uuid

UuidSpec == UuidInit /\ [][UuidNext]_vars

(***************************************************************************)
(* The request proof.  A buffer of 32 bytes is a function on 0..31.        *)
(* SHA-256 and the encoding of its digest are not computed: the proof is   *)
(* named by the buffer it is the digest of.                                *)
(***************************************************************************)
\* a faulty variant: the rotation count is read from the byte being replaced
ProofRound_ownShift(work, byte_val) ==
    LET idx == byte_val % 32
        shift_amount == BitAnd(work[idx], 7)
        xor_result == U8(BitXor(byte_val, work[idx]))
        rotated == BitAnd(BitOr(Shl(xor_result, shift_amount),
                                Shr(xor_result, 8 - shift_amount)), 255)
    IN [work EXCEPT ![idx] = U8(rotated)]

\* one round of the loop of generate_request_proof
ProofRound(work, byte_val) ==
    LET idx == byte_val % 32
        shift_idx == (idx + 1) % 32
        shift_amount == BitAnd(work[shift_idx], 7)
        xor_result == U8(BitXor(byte_val, work[idx]))
        rotated == BitAnd(BitOr(Shl(xor_result, shift_amount),
                                Shr(xor_result, 8 - shift_amount)), 255)
    IN [work EXCEPT ![idx] = U8(rotated)]

\* the buffer work after the loop has run over base_string
RECURSIVE ProofWork(_, _)
ProofWork(base_string, secret32) ==
    IF base_string = <<>> THEN secret32
    ELSE ProofRound(ProofWork(SubSeq(base_string, 1, Len(base_string) - 1), secret32),
                    base_string[Len(base_string)])

\* work and secret32 are what the two buffers hold when the call returns
generate_request_proof(base_string, secret32) ==
    [work |-> ProofWork(base_string, secret32),
     secret32 |-> secret32,
     ret |-> <<"base64(sha256)", ProofWork(base_string, secret32)>>]

MaxBase == 3

\* '.', '/', '_', '`' and 0xFF: the buffer's places 14, 15, 31, 0 and 31
BaseBytes == {46, 47, 95, 96, 255}

BaseStrings == UNION {[1..n -> BaseBytes] : n \in 0..MaxBase}

Secrets ==
    {[i \in 0..31 |-> (37 * i + 11) % 256], [i \in 0..31 |-> (255 - 7 * i) % 256],
     [i \in 0..31 |-> 0]}

ProofInit ==
    /\ Constructed
    /\ calc \in {[stage |-> "in", base_string |-> b, secret32 |-> k] :
                    b \in BaseStrings, k \in Secrets}

Proof ==
    /\ calc.stage = "in"
    /\ calc' = [stage |-> "proved", base_string |-> calc.base_string,
                secret32 |-> calc.secret32,
                out |-> generate_request_proof(calc.base_string, calc.secret32)]
    /\ UNCHANGED device

\* the same call once more, as the next request makes it
ProofAgain ==
    /\ calc.stage = "proved"
    /\ calc' = [stage |-> "proved twice", base_string |-> calc.base_string,
                secret32 |-> calc.out.secret32,
                out |-> calc.out,
                again |-> generate_request_proof(calc.base_string, calc.out.secret32)]
    /\ UNCHANGED device

ProofNext == Proof \/ ProofAgain

ProofSpec == ProofInit /\ [][ProofNext]_vars

(***************************************************************************)
(* The channel beside a token session that is renewed under it: connect()  *)
(* and loop() on the channel, get_access_token() on the client it shares.  *)
(***************************************************************************)
CallbackNext == Tick \/ Connect \/ Loop \/ GetAccessToken

CallbackSpec == Init /\ [][CallbackNext]_vars

(***************************************************************************)
(* Properties of the realtime channel.                                     *)
(***************************************************************************)
\* a frame has the header line made of the given atoms
HasLine(frame, line) ==
    \E i \in 1..Len(frame) :
        /\ i + Len(line) <= Len(frame)
        /\ frame[i] = LF
        /\ SubSeq(frame, i + 1, i + Len(line)) = line
        /\ frame[i + Len(line) + 1] = LF

\* a SUBSCRIBE frame for the serial's dashboard destination that carries id
IsSubscribeFor(frame, serial, id) ==
    /\ frame[1] = "SUBSCRIBE"
    /\ HasLine(frame, <<"destination:/ws/sn/">> \o serial \o <<"/dashboard">>)
    /\ HasLine(frame, <<"ack:auto">>)
    /\ HasLine(frame, <<"id:">> \o Text("uuid", id))

\* C1: is_connected() goes from false to true only in a step that handles a
\* text frame whose command is CONNECTED, and that step sends a SUBSCRIBE
\* frame for /ws/sn/<serial>/dashboard with ack:auto and the subscription id
\* generated in the step; a SUBSCRIBE frame is only ever sent once a CONNECTED
\* frame has arrived on the connection.
C1_ConnectedOnlyOnStompConnected ==
    [][/\ (~ws.connected /\ ws'.connected) =>
              /\ obs'.op = "loop"
              /\ IsStompConnected(obs'.step)
              /\ ids'.uuid # ids.uuid
              /\ ws'.subscription_id = ids'.uuid
              /\ \E f \in FramesOf(obs'.sent, "SUBSCRIBE") :
                     IsSubscribeFor(f, <<SerialNo>>, ws'.subscription_id)
       /\ FramesOf(obs'.sent, "SUBSCRIBE") # {} =>
              /\ IsStompConnected(obs'.step)
              /\ hist'.linkConnected >= 1]_vars

\* the channel has just become subscribed by a CONNECTED frame
C1_Witness ==
    /\ ws.connected
    /\ obs.op = "loop"
    /\ IsStompConnected(obs.step)
    /\ hist.linkConnected = 1
    /\ \E f \in FramesOf(obs.sent, "SUBSCRIBE") :
           IsSubscribeFor(f, <<SerialNo>>, ws.subscription_id)

\* C2: every CONNECTED frame handled makes the channel send exactly one
\* SUBSCRIBE frame, whose id differs from every subscription id used before;
\* no other step sends SUBSCRIBE.  Between a transport open and the next close
\* the channel so sends as many SUBSCRIBE frames as CONNECTED frames arrive.
C2_OneSubscribePerConnectedFrame ==
    [][/\ IsStompConnected(obs'.step) =>
              /\ Len(obs'.sent) = 1
              /\ obs'.sent[1][1] = "SUBSCRIBE"
              /\ HeaderValue(obs'.sent[1], "id:") \notin hist.subscriptionIds
              /\ HeaderValue(obs'.sent[1], "id:") = Text("uuid", ws'.subscription_id)
       /\ ~IsStompConnected(obs'.step) => FramesOf(obs'.sent, "SUBSCRIBE") = {}
       /\ hist'.linkSubscribes = hist'.linkConnected]_vars

\* a second CONNECTED frame on one connection has been answered
C2_Witness ==
    /\ IsStompConnected(obs.step)
    /\ hist.linkConnected = 2
    /\ hist.linkSubscribes = 2
    /\ Cardinality(hist.subscriptionIds) = 2

\* C2 as stated: one SUBSCRIBE per connection, however many CONNECTED frames
C2_ExactlyOneSubscribePerConnection ==
    /\ hist.linkSubscribes <= 1
    /\ hist.linkConnected >= 1 => hist.linkSubscribes = 1

\* C3: whenever the transport-open event is handled after a connect() that
\* returned true, the cached token is non-empty and is the token the session
\* held when connect() ran, and a CONNECT frame with that Bearer token is
\* sent; also when the channel was subscribed at the time of the connect().
C3_OpenAfterConnectSendsConnect ==
    [][(obs'.op = "loop" /\ obs'.step.type = "WStype_CONNECTED"
           /\ hist.connectToken # 0) =>
          /\ ws'.cached_token = hist.connectToken
          /\ \E f \in FramesOf(obs'.sent, "CONNECT") :
                 HasLine(f, <<"Authorization:Bearer ">>
                                \o Text("token", hist.connectToken))]_vars

\* C4: every upgrade request carries signed headers computed for it and not
\* sent before, and every CONNECT frame carries a token fetched from the
\* session since the last CONNECT frame.
C4_FreshCredentialsPerAttempt ==
    [][/\ \A i \in DOMAIN obs'.wire : obs'.wire[i].nonce \notin hist.wireNonces
       /\ FramesOf(obs'.sent, "CONNECT") # {} => hist.tokenFetched]_vars

\* C5: the transport makes a connection attempt only as the effect of a
\* connect() call made since the attempt before it.
C5_AttemptOnlyAfterConnect ==
    [][Len(obs'.wire) > 0 => hist.armed]_vars

\* C7: once the handler has processed a transport DISCONNECTED or ERROR event,
\* is_connected() is false, whatever the state before.
C7_ClosedAfterDisconnectOrError ==
    (obs.op = "loop" /\ obs.step.type \in {"WStype_DISCONNECTED", "WStype_ERROR"})
        => ~ws.connected

\* a transport error has been handled by a channel that was subscribed
C7_Witness ==
    /\ obs.op = "loop"
    /\ obs.step.type = "WStype_ERROR"
    /\ ws.subscription_id # 0
    /\ ~ws.connected

\* the step signed headers for the upgrade request, and the signature is empty
WsSigningFailed(o) ==
    /\ o.op = "connect"
    /\ \E i \in DOMAIN o.calls, j \in DOMAIN o.calls :
           /\ i < j
           /\ o.calls[i] = "get_access_token_string"
           /\ o.calls[j] = "generate_extra_request_headers"
    /\ o.hdr.signature = 0

\* C8: a connect() in which signing the upgrade headers yields an empty
\* signature, or for which no installation key is held, returns false and
\* neither names the endpoint to the transport nor sets its headers, and
\* nothing is put on the wire in the call.
C8_NoOpenWhenSigningFails ==
    [][(obs'.op = "connect" /\ (WsSigningFailed(obs') \/ ~client.initialized)) =>
          /\ ~obs'.ret
          /\ "beginSSL" \notin Range(obs'.calls)
          /\ ws'.begun = ws.begun
          /\ ws'.extraHeaders = ws.extraHeaders
          /\ ws'.link \in {ws.link, "closed"}
          /\ obs'.wire = <<>>]_vars

\* connect() has got a token and then failed to sign the upgrade headers
C8_Witness ==
    /\ WsSigningFailed(obs)
    /\ ~obs.ret
    /\ client.access_token # 0
    /\ ws.cached_token = client.access_token

\* C9: a sign-in, refresh or api_call whose signed headers come out with an
\* empty signature sends no HTTP request and returns failure.
C9_NoRequestWithoutSignature ==
    /\ \A i \in DOMAIN obs.http : obs.http[i].signature # 0
    /\ (obs.op \in {"get_access_token", "api_call"}
           /\ "generate_extra_request_headers" \in Range(obs.calls)
           /\ obs.hdr.signature = 0) => ~obs.ret

\* C10: disconnect() can be called in every state and leaves is_connected()
\* false, the subscription id empty and the cached token empty; the only
\* frame it sends is UNSUBSCRIBE, and only if the channel was subscribed; a
\* disconnect() that follows a disconnect() sends nothing and changes nothing.
C10_DisconnectIdempotent ==
    /\ []ENABLED Disconnect
    /\ [][obs'.op = "disconnect" =>
             /\ ~ws'.connected
             /\ ws'.subscription_id = 0
             /\ ws'.cached_token = 0
             /\ \A i \in DOMAIN obs'.sent : obs'.sent[i][1] = "UNSUBSCRIBE"
             /\ obs'.sent # <<>> => ws.connected
             /\ obs.op = "disconnect" =>
                    /\ obs'.sent = <<>>
                    /\ <<ws', client', machine', ids'>> = <<ws, client, machine, ids>>
         ]_vars

\* disconnect() has been called on a subscribed channel and sent UNSUBSCRIBE
C10_Witness ==
    /\ obs.op = "disconnect"
    /\ FramesOf(obs.sent, "UNSUBSCRIBE") # {}
    /\ ~ws.connected
    /\ ws.subscription_id = 0
    /\ ws.cached_token = 0

(***************************************************************************)
(* Properties of the owner's reconnect policy.                             *)
(***************************************************************************)
\* a call of loop() has called connect()
LoopConnected(o) == o.op = "machine_loop" /\ "connect" \in Range(o.calls)

\* C6: LaMarzoccoMachine::loop() calls connect only when is_websocket_connected()
\* is false at its check, and two such calls are at least 30 s apart; and,
\* with loop() called again and again and time passing, a channel that is
\* disconnected becomes connected or gets a further connect from loop() (as
\* long as the clock can still reach the end of the interval and the run has
\* the two UUIDs left that a failing refresh and sign-in draw).
C6_ReconnectPolicy ==
    /\ [][LoopConnected(obs') =>
             /\ ~is_websocket_connected(loop(World, obs'.step))
             /\ \/ hist.loopConnectAt = -1
                \/ millis' - hist.loopConnectAt >= RECONNECT_INTERVAL_MS]_vars
    /\ (/\ machine.started
        /\ ~ws.connected
        /\ ~LoopConnected(obs)
        /\ ids.uuid + 2 <= MaxUuid
        /\ machine.last_reconnect_attempt + RECONNECT_INTERVAL_MS
               <= MaxOwnerTicks * TickMs)
           ~> (ws.connected \/ LoopConnected(obs))

\* loop() has called connect() a second time, an interval after the first
C6_Witness ==
    /\ LoopConnected(obs)
    /\ ~ws.connected
    /\ millis = 2 * RECONNECT_INTERVAL_MS
    /\ hist.loopConnectAt = millis
    /\ machine.last_reconnect_attempt = millis

(***************************************************************************)
(* The channel fed with text frames of many shapes: a command, with or     *)
(* without surrounding blanks; headers, or a NUL in their place; the       *)
(* separator or a single LF; a body; and what follows the body.            *)
(***************************************************************************)
FrameCommands == {<<"MESSAGE">>, <<SP, "MESSAGE", SP>>, <<"ERROR">>}
FrameHeaders == {<<LF, "destination:/x">>, <<NUL>>}
FrameSeparators == {<<LF, LF>>, <<LF>>}
FrameBodies == {<<>>, <<SP, "{a:1}", LF, LF, "{b:2}">>}
FrameTails == {<<>>, <<NUL, "{c:3}", NUL>>}

TextFrames ==
    {c \o h \o sep \o b \o t :
        c \in FrameCommands, h \in FrameHeaders, sep \in FrameSeparators,
        b \in FrameBodies, t \in FrameTails}

\* loop() with one of these frames arriving on the open connection
Deliver ==
    /\ ws.link = "open"
    /\ \E p \in TextFrames :
          LET step == [type |-> "WStype_TEXT", payload |-> p, txOk |-> TRUE]
          IN Commit(loop(World, step), "loop", step)

FrameNext == Connect \/ Loop \/ Deliver

FrameSpec == Init /\ [][FrameNext]_vars

(***************************************************************************)
(* The decoder applied to a text, beside the channel that receives the     *)
(* same text and hands it to its event handler.                            *)
(***************************************************************************)
ParseFrames ==
    {<<>>, <<"MESSAGE">>, <<"MESSAGE", LF, "destination:/x">>,
     <<"MESSAGE", LF, "destination:/x", LF, "{a:1}", NUL>>,
     <<"MESSAGE", NUL, LF, LF, "{a:1}">>,
     <<"MESSAGE", LF, "destination:/x", LF, LF, "{a:1}", NUL>>}

ParseInit ==
    /\ client \in {InitClient(b) : b \in BOOLEAN}
    /\ InitPrefs
    /\ millis = 0
    /\ synced = FALSE
    /\ ws = InitWs
    /\ machine = InitMachine
    /\ ids = [uuid |-> 0, tok |-> 0]
    /\ obs = ObsOf(World, "init", NoStep)
    /\ hist = InitHist
    /\ wifi = InitWifi
    /\ display = InitDisplay
    /\ calc \in {[stage |-> "in", message |-> m] : m \in ParseFrames}

Parse ==
    /\ calc.stage = "in"
    /\ calc' = [stage |-> "parsed", message |-> calc.message,
                out |-> _decode_stomp_message(calc.message, Stale, Stale, Stale)]
    /\ UNCHANGED device

\* loop() with the text arriving on the open connection
Receive ==
    /\ ws.link = "open"
    /\ LET step == [type |-> "WStype_TEXT", payload |-> calc.message, txOk |-> TRUE]
       IN Commit(loop(World, step), "loop", step)

ParseNext == Connect \/ Loop \/ Receive \/ Parse

ParseSpec == ParseInit /\ [][ParseNext]_vars

\* b is what lies between the first LF LF of the frame and the NUL that ends
\* the frame (or the frame's end, if no NUL follows)
IsBodyOf(b, p) ==
    \E i \in 1..(Len(p) - 1) :
        /\ p[i] = LF /\ p[i + 1] = LF
        /\ \A k \in 1..(i - 1) : ~(p[k] = LF /\ p[k + 1] = LF)
        /\ i + 1 + Len(b) <= Len(p)
        /\ b = SubSeq(p, i + 2, i + 1 + Len(b))
        /\ \A k \in 1..Len(b) : b[k] # NUL
        /\ i + 1 + Len(b) < Len(p) => p[i + 2 + Len(b)] = NUL

\* the last step handled a text frame that decodes with command MESSAGE
HandledMessage(o) ==
    /\ o.op = "loop"
    /\ o.step.type = "WStype_TEXT"
    /\ _decode_stomp_message(o.step.payload, <<>>, <<>>, <<>>).ok
    /\ _decode_stomp_message(o.step.payload, <<>>, <<>>, <<>>).command = <<"MESSAGE">>

\* C11: when a text frame that decodes with command MESSAGE is handled on a
\* subscribed channel with a consumer registered, the consumer is called
\* exactly once, with the frame's body unchanged: the bytes between the
\* header/body separator and the NUL that ends the frame.
C11_MessageBodyVerbatim ==
    (HandledMessage(obs) /\ ws.connected /\ ws.message_callback) =>
        /\ Len(obs.delivered) = 1
        /\ IsBodyOf(obs.delivered[1], obs.step.payload)

\* a MESSAGE frame whose body holds a blank and a blank line was handed over
C11_Witness ==
    /\ HandledMessage(obs)
    /\ ws.connected
    /\ obs.delivered = <<<<SP, "{a:1}", LF, LF, "{b:2}">>>>
    /\ obs.step.payload[1] = SP

\* the step handles a text frame that decodes with command ERROR
HandledError(o) ==
    /\ o.op = "loop"
    /\ o.step.type = "WStype_TEXT"
    /\ _decode_stomp_message(o.step.payload, <<>>, <<>>, <<>>).ok
    /\ _decode_stomp_message(o.step.payload, <<>>, <<>>, <<>>).command = <<"ERROR">>

\* C12: handling an inbound ERROR frame changes no channel state:
\* is_connected(), the subscription id and the cached token keep their values,
\* the transport stays as it is, and nothing is sent or handed to the consumer.
C12_ErrorFrameChangesNothing ==
    [][HandledError(obs') =>
          /\ ws' = ws
          /\ obs'.sent = <<>>
          /\ obs'.delivered = <<>>]_vars

\* an ERROR frame has been handled on a subscribed channel, which stays so
C12_Witness ==
    /\ HandledError(obs)
    /\ ws.connected
    /\ ws.link = "open"
    /\ ws.subscription_id # 0
    /\ ws.cached_token # 0

(***************************************************************************)
(* Properties of the token session.                                        *)
(***************************************************************************)
\* the endpoints of the requests a step has sent, in order
Endpoints(o) == [i \in DOMAIN o.http |-> o.http[i].endpoint]

\* the step's first request is a refresh that carries the given refresh token
RefreshesWith(o, token) ==
    /\ Len(o.http) >= 1
    /\ o.http[1].endpoint = "/auth/refreshtoken"
    /\ o.http[1].refreshToken = token

RefusedRefreshes(o) ==
    {i \in DOMAIN o.http :
        /\ o.http[i].endpoint = "/auth/refreshtoken"
        /\ ~(o.http[i].code >= 200 /\ o.http[i].code < 300)}

\* C14: when a refresh request gets a non-2xx response, the next request of
\* the same call is a sign-in, and get_access_token() reports failure only if
\* that sign-in fails too.
C14_RefreshFallsBackToSignIn ==
    \A i \in RefusedRefreshes(obs) :
        /\ i < Len(obs.http)
        /\ obs.http[i + 1].endpoint = "/auth/signin"
        /\ obs.op = "get_access_token" => (obs.ret <=> obs.http[i + 1].code = 200)

\* a refused refresh was followed by a sign-in that succeeded
C14_Witness ==
    /\ obs.op = "get_access_token"
    /\ RefusedRefreshes(obs) = {1}
    /\ Endpoints(obs) = <<"/auth/refreshtoken", "/auth/signin">>
    /\ obs.http[2].code = 200
    /\ obs.ret

\* C15: after a successful refresh whose response has no refreshToken field,
\* the stored refresh token is the one held before, the access token is the
\* newly issued one and expires_at is now plus the new expiresIn; and every
\* refresh request carries the refresh token stored when the call began, so
\* a later refresh still sends the old one.
C15_RefreshKeepsOldRefreshToken ==
    [][/\ \A i \in DOMAIN obs'.http :
              obs'.http[i].endpoint = "/auth/refreshtoken" =>
                  obs'.http[i].refreshToken = client.refresh_token
       /\ (/\ Len(obs'.http) = 1
           /\ obs'.http[1].endpoint = "/auth/refreshtoken"
           /\ obs'.http[1].code = 200
           /\ obs'.http[1].fields = "noRefreshToken") =>
              /\ client'.refresh_token = client.refresh_token
              /\ client'.access_token = ids'.tok
              /\ ids'.tok # ids.tok
              /\ client'.access_token # client.access_token
              /\ client'.expires_at = NowSeconds(World) + obs'.http[1].expiresIn]_vars

\* a later refresh has sent the refresh token that an earlier refresh, which
\* brought a new access token only, left in place
C15_Witness ==
    /\ Len(obs.http) >= 1
    /\ obs.http[1].endpoint = "/auth/refreshtoken"
    /\ obs.http[1].refreshToken = client.refresh_token
    /\ obs.http[1].code = 401
    /\ client.refresh_token > 0
    /\ client.access_token > client.refresh_token

\* a sign-in or refresh answered with status 200 and a body that lacks
\* accessToken or expiresIn, or is not JSON
Malformed(r) ==
    /\ r.endpoint \in {"/auth/signin", "/auth/refreshtoken"}
    /\ r.code = 200
    /\ (r.fields = "none" \/ r.expiresIn = 0)

\* C16: a sign-in or refresh whose response has a success status but lacks
\* accessToken or expiresIn, or is not valid JSON, is reported as a failure,
\* and the stored access token is left as it was.
C16_MalformedResponseIsFailure ==
    [][(obs'.op = "get_access_token"
           /\ \E i \in DOMAIN obs'.http : Malformed(obs'.http[i])) =>
          /\ ~obs'.ret
          /\ client'.access_token = client.access_token]_vars

\* get_access_token() answered success and sent nothing
KeptToken(o) == o.op = "get_access_token" /\ o.ret /\ o.http = <<>>

\* C17: whenever get_access_token() returns success without renewing the
\* token, the current time (wall clock once synced, else the monotonic
\* fallback) is at least TOKEN_TIME_TO_REFRESH seconds before expires_at,
\* and the token is left as it was; a token stamped from the monotonic
\* fallback is never kept once the wall clock is in use.
C17_KeptTokenHasMargin ==
    [][KeptToken(obs') =>
          /\ client' = client
          /\ client.expires_at >= NowSeconds(World) + TOKEN_TIME_TO_REFRESH
          /\ synced => client.expires_at >= EpochBase]_vars

\* a token stamped after time sync is kept by a later call, the clock having
\* moved on since the sign-in
C17_Witness ==
    /\ KeptToken(obs)
    /\ synced
    /\ millis > 0
    /\ client.expires_at = EpochBase + ExpiresInLong

\* the positions in the step's requests of those to the API and of those to
\* the sign-in and refresh endpoints
ApiRequests(o) == {i \in DOMAIN o.http : o.http[i].endpoint = "/things"}

AuthRequests(o) == DOMAIN o.http \ ApiRequests(o)

\* the token check of the step succeeded: on an initialized client it kept
\* the token and sent nothing, or the last of its requests was answered 200
TokenAcquired(o) ==
    /\ "get_access_token" \in Range(o.calls)
    /\ \/ AuthRequests(o) = {} /\ client.initialized
       \/ \E i \in AuthRequests(o) :
             /\ \A j \in AuthRequests(o) : j <= i
             /\ o.http[i].code = 200

\* C18: api_call() sends its request only after get_access_token() succeeded
\* in the same call, after every request of that check, with the access token
\* held after the check as bearer; when the token check fails or the method
\* is none of GET, POST, PUT, DELETE, no request is sent and false is
\* returned; it returns true exactly when a request was sent and answered
\* with a status in 200..299.
C18_ApiCallAfterTokenCheck ==
    [][obs'.op = "api_call" =>
          LET o == obs'
              api == ApiRequests(o)
          IN /\ Cardinality(api) <= 1
             /\ \A i \in api :
                   /\ i = Len(o.http)
                   /\ TokenAcquired(o)
                   /\ o.step.type \in HttpMethods
                   /\ o.http[i].bearer = client'.access_token
             /\ (o.step.type \notin HttpMethods) => (api = {} /\ ~o.ret)
             /\ ~TokenAcquired(o) => (api = {} /\ ~o.ret)
             /\ o.ret <=> \E i \in api :
                             o.http[i].code >= 200 /\ o.http[i].code < 300]_vars

\* a call whose token check renewed the token, and whose request carried the
\* new token and was answered 299
C18_Witness ==
    /\ obs.op = "api_call"
    /\ obs.ret
    /\ Len(obs.http) = 2
    /\ obs.http[1].endpoint = "/auth/signin"
    /\ obs.http[2].code = 299
    /\ obs.http[2].bearer = client.access_token

(***************************************************************************)
(* Properties of the installation identity.                                *)
(***************************************************************************)
\* the store holds a complete identity: an id, a secret of 32 bytes, a
\* private key and a public key
CompleteIdentity(p) ==
    /\ p.INST_ID # 0
    /\ p.INST_SECRET.len = SecretLen
    /\ p.INST_PRIVKEY.len > 0
    /\ p.INST_PUBKEY.len > 0

StoredIdentity(p) == <<p.INST_ID, p.INST_SECRET, p.INST_PRIVKEY, p.INST_PUBKEY>>

\* C19: load_installation_key returns false whenever the store lacks the id,
\* or the secret is absent or not exactly 32 bytes, or the private or the
\* public key is absent or empty; after a boot whose init() failed the client
\* is not initialized and get_installation_key() fails; and a client that
\* hands out a key hands out the complete stored one.
C19_PartialIdentityIsMissing ==
    /\ ~CompleteIdentity(prefs) => ~load_installation_key(prefs, NoKey).ok
    /\ (obs.op = "setup" /\ "init" \in Range(obs.calls) /\ ~obs.ret) =>
          (~is_initialized(World) /\ ~get_installation_key(World))
    /\ get_installation_key(World) =>
          /\ CompleteIdentity(prefs)
          /\ client.installation_key = load_installation_key(prefs, NoKey).key
          /\ client.installation_key.installation_id # 0
          /\ client.installation_key.private_key.len > 0
          /\ client.installation_key.public_key.len > 0

\* a boot found no complete identity stored, could not make a new one, and
\* init() then failed
C19_Witness ==
    /\ obs.op = "setup"
    /\ "generate_installation_key" \in Range(obs.calls)
    /\ "init" \in Range(obs.calls)
    /\ ~obs.ret
    /\ ~CompleteIdentity(prefs)

\* C20: once a complete installation identity is stored, no boot and no save
\* of the configuration portal changes a stored field of it; an identity is
\* saved only when loading reported none, it is a new one, and loading it
\* returns the fields that were saved.
C20_StoredIdentityNeverChanges ==
    [][/\ CompleteIdentity(prefs) => StoredIdentity(prefs') = StoredIdentity(prefs)
       /\ "save_installation_key" \in Range(obs'.calls) =>
             /\ ~load_installation_key(prefs, NoKey).ok
             /\ ids'.uuid # prefs.INST_ID
             /\ load_installation_key(prefs', NoKey) =
                   [ok |-> TRUE, key |-> InstallationKey(ids'.uuid)]
       /\ StoredIdentity(prefs') # StoredIdentity(prefs) =>
             ~load_installation_key(prefs, NoKey).ok]_vars

\* a boot has found the identity an earlier step of the run saved, and the
\* client holds it
C20_Witness ==
    /\ obs.op = "setup"
    /\ obs.ret
    /\ "save_installation_key" \notin Range(obs.calls)
    /\ prefs.INST_ID > 1
    /\ client.installation_key = InstallationKey(prefs.INST_ID)

(***************************************************************************)
(* Properties of the subscription and of the transport's callbacks.        *)
(***************************************************************************)
\* C21: the subscription id is non-empty only while the channel is
\* subscribed: it is set when the CONNECTED frame is handled, and it is empty
\* after every disconnect, be it disconnect() or a disconnect or error event
\* of the socket.
C21_SubscriptionIdOnlyWhileSubscribed ==
    ws.subscription_id # 0 => ws.connected

\* the functions of the token session and of request signing
SessionCalls ==
    {"get_access_token", "get_access_token_string", "_sign_in", "_refresh_token",
     "generate_extra_request_headers", "api_call", "get_installation_key"}

\* C22: no handler of a transport event (open, text frame, disconnect, error)
\* calls get_access_token, sign-in, refresh or request signing, and none
\* sends an HTTP request or touches the client; the CONNECT frame carries the
\* token connect() cached, the SUBSCRIBE frame the serial number connect()
\* stored, and an upgrade request the headers connect() set.
C22_HandlersStayLocal ==
    [][obs'.op = "loop" =>
          /\ Range(obs'.calls) \cap SessionCalls = {}
          /\ obs'.http = <<>>
          /\ client' = client
          /\ ids'.tok = ids.tok
          /\ \A f \in FramesOf(obs'.sent, "CONNECT") :
                HasLine(f, <<"Authorization:Bearer ">> \o Text("token", ws.cached_token))
          /\ \A f \in FramesOf(obs'.sent, "SUBSCRIBE") :
                IsSubscribeFor(f, ws.serial_number, ws'.subscription_id)
          /\ \A i \in DOMAIN obs'.wire : obs'.wire[i] = ws.extraHeaders]_vars

\* the transport has opened after the client renewed its token, and the
\* CONNECT frame sent carries the token connect() cached, not the newer one
C22_Witness ==
    /\ obs.op = "loop"
    /\ obs.step.type = "WStype_CONNECTED"
    /\ client.access_token # ws.cached_token
    /\ client.access_token > 0
    /\ \E f \in FramesOf(obs.sent, "CONNECT") :
           HasLine(f, <<"Authorization:Bearer ">> \o Text("token", ws.cached_token))

(***************************************************************************)
(* Properties of the STOMP codec.                                          *)
(***************************************************************************)
\* a header text none of whose lines is empty (the empty text has no line)
NoEmptyLine(h) ==
    /\ Len(h) > 0 => h[1] # LF
    /\ \A i \in 1..(Len(h) - 1) : ~(h[i] = LF /\ h[i + 1] = LF)

\* the header lines of a header text, each ended by one LF
HeaderLines(h) ==
    IF h = <<>> THEN <<>> ELSE IF EndsWithLF(h) THEN h ELSE h \o <<LF>>

\* the empty lines of a frame before its position n
BlankLines(frame, n) ==
    Cardinality({i \in 1..(n - 1) : frame[i] = LF /\ frame[i + 1] = LF})

\* C23: an encoded frame is the command and a LF, the header lines each
\* ended by exactly one LF (a header text that ends in LF gets no second
\* one), exactly one blank line, the body and one final NUL; this holds for
\* the empty header text too.
C23_EncodedFrameLayout ==
    calc.stage \in {"encoded", "decoded"} =>
        /\ calc.frame = calc.command \o <<LF>> \o HeaderLines(calc.headers)
                            \o <<LF>> \o calc.body \o <<NUL>>
        /\ (NoEmptyLine(calc.headers) /\ LF \notin Range(calc.command)) =>
               BlankLines(calc.frame, Len(calc.frame) - Len(calc.body) - 1) = 1

\* what a decoded header text is: the header text less its last LF
LessLastLF(h) == IF EndsWithLF(h) THEN SubSeq(h, 1, Len(h) - 1) ELSE h

\* C24: for a command without surrounding whitespace, a header text without
\* an empty line (the empty one included) and a body without NUL, decoding
\* the encoded frame returns true and yields the same command, the header
\* text less its last LF, and the same body.
C24_RoundTrip ==
    (/\ calc.stage = "decoded"
     /\ Trim(calc.command) = calc.command
     /\ LF \notin Range(calc.command)
     /\ NoEmptyLine(calc.headers)
     /\ NUL \notin Range(calc.body)) =>
        /\ calc.out.ok
        /\ calc.out.command = calc.command
        /\ calc.out.headers = LessLastLF(calc.headers)
        /\ calc.out.body = calc.body

\* a text that holds no LF LF
NoSeparator(m) == \A i \in 1..(Len(m) - 1) : ~(m[i] = LF /\ m[i + 1] = LF)

\* C25: for a text with no LF LF the decoder returns false and leaves its
\* command, headers and body outputs as they were; the event handler that
\* receives such a text changes no channel state, sends nothing and does not
\* call the consumer.
C25_UndecodableTextIsIgnored ==
    [][/\ (calc'.stage = "parsed" /\ calc.stage = "in" /\ NoSeparator(calc.message)) =>
             calc'.out = [ok |-> FALSE, command |-> Stale, headers |-> Stale,
                          body |-> Stale]
       /\ (/\ obs'.op = "loop"
           /\ obs'.step.type = "WStype_TEXT"
           /\ obs' # obs
           /\ NoSeparator(obs'.step.payload)) =>
             /\ ws' = ws
             /\ machine' = machine
             /\ obs'.sent = <<>>
             /\ obs'.delivered = <<>>]_vars

\* a text without LF LF was refused by the decoder, and one was received on
\* the subscribed channel with a consumer registered
C25_Witness ==
    /\ calc.stage = "parsed"
    /\ NoSeparator(calc.message)
    /\ Len(calc.message) > 0
    /\ ~calc.out.ok
    /\ obs.op = "loop"
    /\ obs.step.type = "WStype_TEXT"
    /\ NoSeparator(obs.step.payload)
    /\ ws.connected
    /\ ws.message_callback

(***************************************************************************)
(* Properties of the identity functions.                                   *)
(***************************************************************************)
\* the places of the one-bits of a byte, and the byte of a set of places
Bits(x) == {i \in 0..7 : (x \div 2^i) % 2 = 1}

RECURSIVE FromBits(_)
FromBits(S) ==
    IF S = {} THEN 0
    ELSE LET i == CHOOSE j \in S : TRUE IN 2^i + FromBits(S \ {i})

\* the rotation of a byte to the left, and the exclusive or of two bytes
Rotl8(x, n) == FromBits({(i + n) % 8 : i \in Bits(x)})

Xor8(x, y) == FromBits((Bits(x) \ Bits(y)) \cup (Bits(y) \ Bits(x)))

\* the round the claim describes, on the buffer before and the byte b
FoldRound(before, b) ==
    [before EXCEPT ![b % 32] =
        Rotl8(Xor8(b, before[b % 32]), FromBits(Bits(before[((b % 32) + 1) % 32]) \cap {0, 1, 2}))]

RECURSIVE Fold(_, _)
Fold(base, secret) ==
    IF base = <<>> THEN secret
    ELSE FoldRound(Fold(SubSeq(base, 1, Len(base) - 1), secret), base[Len(base)])

\* C26: the working buffer of generate_request_proof is the fold, from a
\* copy of the secret, over the bytes b of the base string of: idx = b mod
\* 32, shift = working[(idx+1) mod 32] & 7, working[idx] := the 8-bit
\* rotation to the left by shift of (b XOR working[idx]); the caller's
\* secret is not modified, and the same inputs give the same output.
C26_ProofIsFoldOverBaseString ==
    /\ calc.stage \in {"proved", "proved twice"} =>
          /\ calc.out.work = Fold(calc.base_string, calc.secret32)
          /\ calc.out.secret32 = calc.secret32
          /\ calc.out.work \in [0..31 -> Byte]
    /\ calc.stage = "proved twice" => calc.again = calc.out

\* a base string of several bytes has been folded into a buffer that differs
\* from the secret, one of its bytes wrapping from place 31 to the count at
\* place 0
C26_Witness ==
    /\ calc.stage = "proved twice"
    /\ Len(calc.base_string) = MaxBase
    /\ 255 \in Range(calc.base_string)
    /\ calc.out.work # calc.secret32
    /\ calc.out.work[31] # calc.secret32[31]

\* C27: base64_decode(base64_encode(x)) = x, with the same length, for
\* every byte sequence x: the empty one and those whose length is not a
\* multiple of 3 included.
C27_Base64RoundTrip ==
    calc.stage = "decoded" =>
        /\ calc.out.ok
        /\ calc.out.output = calc.data
        /\ calc.out.output_len = Len(calc.data)
        /\ Len(calc.encoded) = 4 * ((Len(calc.data) + 2) \div 3)

\* four bytes, the last one alone in its group, came back from an encoded
\* text that ends in two '='
C27_Witness ==
    /\ calc.stage = "decoded"
    /\ Len(calc.data) = 4
    /\ calc.data[4] = 255
    /\ calc.encoded[Len(calc.encoded)] = "="
    /\ calc.encoded[Len(calc.encoded) - 1] = "="
    /\ calc.out.output_len = 4

\* the hex digit of a number below 16, written as the claim reads it
HexDigit(n) ==
    IF n < 10 THEN ToString(n)
    ELSE CASE n = 10 -> "a" [] n = 11 -> "b" [] n = 12 -> "c"
           [] n = 13 -> "d" [] n = 14 -> "e" [] n = 15 -> "f"

IsHyphen(c) == c = "-"

IsDigit(c) == ~IsHyphen(c)

\* nibble k (0..31) of 16 bytes, the high nibble of a byte first
Nibble(bytes, k) ==
    IF k % 2 = 0 THEN bytes[k \div 2] \div 16 ELSE bytes[k \div 2] % 16

\* C28: for every 16 random bytes generate_uuid returns a text of 36
\* characters, lowercase hex digits but for hyphens at the indexes 8, 13, 18
\* and 23; the character at index 14 is '4', the one at index 19 is one of
\* 8, 9, a, b, and every other digit is the nibble of the random bytes at
\* its place.
C28_UuidIsVersion4Text ==
    calc.stage = "formatted" =>
        /\ Len(calc.uuid) = 36
        /\ \A k \in 0..35 :
              IF k \in {8, 13, 18, 23} THEN calc.uuid[k + 1] = "-"
              ELSE \E n \in 0..15 : calc.uuid[k + 1] = HexDigit(n)
        /\ calc.uuid[14 + 1] = "4"
        /\ calc.uuid[19 + 1] \in {"8", "9", "a", "b"}
        /\ \A k \in (0..31) \ {12, 16} :
              SelectSeq(calc.uuid, IsDigit)[k + 1] = HexDigit(Nibble(calc.random, k))

\* a UUID was formatted from bytes whose version and variant places held
\* other bits, and which hold digits above 9
C28_Witness ==
    /\ calc.stage = "formatted"
    /\ calc.random[6] = 165
    /\ calc.random[8] = 255
    /\ calc.random[15] = 255
    /\ calc.uuid[36] = "f"
    /\ calc.uuid[15] = "4"
    /\ calc.uuid[16] = "5"
    /\ calc.uuid[20] = "b"

\* the seconds since the Unix epoch at the present state: the device's
\* clock counts from EpochBase whether or not the device has synced to it
EpochSeconds == EpochBase + (millis \div 1000)

\* headers whose timestamp is the time since the epoch in milliseconds,
\* compared in whole seconds
EpochStamped(h) == h.timestamp \div 1000 = EpochSeconds

\* headers whose proof and signature cover the header's own timestamp
SelfCovered(h) == h.proof_input[2] = h.nonce /\ h.proof_input[3] = h.timestamp

\* C29: the X-Timestamp of signed headers, of a REST request and of the
\* upgrade request alike, is the current time in milliseconds since the Unix
\* epoch, and the same text is the timestamp the proof and the signature
\* cover.
C29_TimestampIsEpochMillis ==
    /\ \A i \in DOMAIN obs.http : EpochStamped(obs.http[i]) /\ SelfCovered(obs.http[i])
    /\ (obs.op = "connect" /\ obs.hdr # NoHeaders) =>
           EpochStamped(obs.hdr) /\ SelfCovered(obs.hdr)

\* the part of C29 that the code keeps: the timestamp sent is the one signed
C29_TimestampSentIsSigned ==
    /\ \A i \in DOMAIN obs.http : SelfCovered(obs.http[i])
    /\ (obs.op = "connect" /\ obs.hdr # NoHeaders) => SelfCovered(obs.hdr)

(***************************************************************************)
(* Properties of the WiFi monitor.                                         *)
(***************************************************************************)
\* C30: after a WiFi disconnection is detected checkWiFiConnection makes at
\* most 5 reconnect attempts; an attempt is given 15 seconds before it times
\* out, and the next one is made only 30 seconds after that timeout; the
\* error screen is shown when the 5th attempt times out and not earlier, and
\* no attempt follows it.
C30_FiveAttemptsThenError ==
    [][(millis' = millis /\ wifi' # wifi) =>
          /\ wifi'.did.reconnect =>
                /\ wifi'.episode.active
                /\ wifi'.episode.attempts <= 5
                /\ ~wifi'.episode.failed
          /\ (wifi'.did.reconnect /\ wifi'.episode.attempts >= 2) =>
                /\ wifi.episode.lastTimeoutAt >= wifi.episode.lastAttemptAt + 15000
                /\ millis >= wifi.episode.lastTimeoutAt + 30000
          /\ wifi'.did.timeout =>
                /\ wifi.episode.lastAttemptAt >= 0
                /\ millis - wifi.episode.lastAttemptAt >= 15000
          /\ wifi'.did.screen <=> (wifi'.did.timeout /\ wifi.episode.attempts = 5)]_vars

\* the fifth attempt has timed out and the error screen has been shown
C30_Witness ==
    /\ wifi.did.screen
    /\ wifi.episode.failed
    /\ wifi.episode.attempts = 5
    /\ ~wifi.wasConnected

\* C31: a checkWiFiConnection call that finds WiFi connected ends the
\* reconnection sequence, with the attempt counter at 0 and without showing
\* the error screen; the call that detects a later disconnection makes the
\* first attempt of a new sequence at once.
C31_ReconnectionResetsSequence ==
    [][(millis' = millis /\ wifi' # wifi) =>
          /\ wifi'.seen =>
                /\ wifi'.reconnectAttempts = 0
                /\ ~wifi'.isReconnecting
                /\ ~wifi'.waitingForConnection
                /\ wifi'.wasConnected
                /\ wifi'.did = Nothing
          /\ (wifi.seen /\ ~wifi'.seen) =>
                /\ wifi'.did.reconnect
                /\ wifi'.reconnectAttempts = 1
                /\ wifi'.episode.attempts = 1
                /\ wifi'.reconnectStartTime = millis]_vars

\* WiFi was found connected while the next attempt was still waited for: the
\* sequence has ended with the counter at 0
C31_Witness ==
    /\ wifi.seen
    /\ wifi.waitUntilTime > millis
    /\ wifi.reconnectStartTime > 0
    /\ wifi.reconnectAttempts = 0
    /\ ~wifi.isReconnecting

(***************************************************************************)
(* C32.  What a boiler gauge holds when boiler_display_update returns.     *)
(***************************************************************************)
\* the step is a call of boiler_display_update with these arguments
BoilerUpdated(type, machine_status, boiler_status, ready_start_time, got) ==
    /\ millis' = millis
    /\ display' = boiler_display_update(display, type, machine_status,
                       boiler_status, ready_start_time,
                       boiler_display_get_current_time_ms(millis), got)

IsOff(b) == b.state = "OFF" /\ b.label = <<"OFF">> /\ b.arc_value = 0

IsReady(b) == b.state = "READY" /\ b.label = <<"READY">> /\ b.arc_value = 100

RemainingOf(i) ==
    calculate_remaining_seconds(display.boilers[i].ready_start_time,
                                boiler_display_get_current_time_ms(millis))

StillHeating ==
    {i \in DOMAIN display.boilers :
        display.boilers[i].state = "HEATING" /\ RemainingOf(i) > 0}

\* C33: once the LVGL task has run the callbacks that are due, the boiler
\* timer runs every second while some heating boiler has 60 seconds or less
\* left, and every 30 seconds while every heating boiler has more
C33_TimerPeriodFollowsRemaining ==
    (StillHeating # {} /\ ~TimerDue(display.timer, millis)) =>
        /\ ~display.timer.paused
        /\ display.timer.period =
              IF \E i \in StillHeating : RemainingOf(i) <= 60 THEN 1000 ELSE 30000

(***************************************************************************)
(* C34.  The flash after brewing stops.                                    *)
(***************************************************************************)
\* the step is a call brewing_display_update(false, 0)
NotBrewingUpdate(got) ==
    /\ millis' = millis
    /\ display' = brewing_display_update(display, FALSE, 0,
                       brewing_display_get_current_time_ms(millis), millis, got)

\* the step is the brewing timer's callback
BrewingCallback ==
    /\ millis' = millis
    /\ TimerDue(display.brew_timer, millis)
    /\ display' = [brewing_display_timer_callback(display,
                       brewing_display_get_current_time_ms(millis), millis)
                   EXCEPT !.brew_timer.last_run = millis]

\* C34: a not-brewing update while ACTIVE starts a flash of the whole seconds
\* brewed; a further not-brewing update during the flash leaves the flash's
\* start and the seconds it shows as they are; and the first callback 3 s or
\* more after the stop returns to IDLE, hides the seconds and pauses the timer
C34_FlashLastsThreeSeconds ==
    [][/\ \A got \in BOOLEAN :
             (NotBrewingUpdate(got) /\ display.g_state = "ACTIVE") =>
                 /\ display'.g_state = "FLASHING"
                 /\ display'.g_flash_start_time = millis
                 /\ display'.g_final_seconds =
                       (brewing_display_get_current_time_ms(millis)
                           - display.g_brewing_start_time) \div 1000
                 /\ got => display'.sec_label = <<display'.g_final_seconds>>
       /\ \A got \in BOOLEAN :
             (NotBrewingUpdate(got) /\ display.g_state = "FLASHING") =>
                 /\ display'.g_state = "FLASHING"
                 /\ display'.g_flash_start_time = display.g_flash_start_time
                 /\ display'.g_final_seconds = display.g_final_seconds
                 /\ display'.sec_label = display.sec_label
       /\ (/\ BrewingCallback
           /\ display.g_state = "FLASHING"
           /\ millis - display.g_flash_start_time >= FLASH_DURATION_MS) =>
                 /\ display'.g_state = "IDLE"
                 /\ display'.sec_hidden
                 /\ display'.brew_timer.paused]_vars

(***************************************************************************)
(* C35.  The simulation pin has priority over telemetry.                   *)
(***************************************************************************)
BrewingState(d) ==
    <<d.g_state, d.g_brewing_start_time, d.g_final_seconds, d.brew_timer.paused>>

\* C35: while the GPIO simulation is active, a brewing_display_update from
\* the websocket handler, whatever it reports, changes neither the brewing
\* state nor the start time, the final seconds or the timer's pause flag
C35_SimulationIgnoresTelemetry ==
    [][\A is_brewing \in BOOLEAN, brewing_start_time \in BrewTimes \cup {0},
          got \in BOOLEAN :
          (/\ display.g_gpio_simulation_active
           /\ millis' = millis
           /\ display' = brewing_display_update(display, is_brewing, brewing_start_time,
                              brewing_display_get_current_time_ms(millis), millis, got))
             => BrewingState(display') = BrewingState(display)]_vars

\* the simulation started brewing and has held it for 3 s
C35_Witness ==
    /\ display.g_gpio_simulation_active
    /\ display.g_state = "ACTIVE"
    /\ display.g_brewing_start_time = DisplayEpoch
    /\ display.sec_label = <<millis \div 1000, 0>>
    /\ millis >= FLASH_DURATION_MS

(***************************************************************************)
(* C36.  The boiler gauges stay hidden under brewing and the water alarm.  *)
(***************************************************************************)
\* C36: whenever brewing mode or the water alarm is active, the arc and the
\* label of both boilers are hidden
C36_GaugesHiddenWhileBrewingOrAlarm ==
    (brewing_display_is_active(display) \/ water_alarm_is_active(display)) =>
        \A i \in DOMAIN display.boilers :
            display.boilers[i].arc_hidden /\ display.boilers[i].label_hidden

Reported(o) == IF o.op = "message" THEN o.step.msg.machine_status ELSE "none"

====
